---------------------------- MODULE Spec2Model ----------------------------
(***************************************************************************)
(* Model of the attack detection engine (src/src/detector): the            *)
(* AttackDetector dispatcher with its per-device queues and worker         *)
(* threads, the AttackRules sliding-window rule chain, the shared          *)
(* registry tables and the global suspicious flag.                         *)
(*                                                                         *)
(* Threads of the program are modelled by program counters:                *)
(*   hpc[t]  a caller of handle_event (one per submitter thread t)         *)
(*   wpc[w]  a device worker thread (_get_device_worker)                   *)
(*   upc     the caller of update_command_list (holder of _commands_lock)  *)
(*   spc     the caller of shutdown                                        *)
(* Python switches threads between bytecodes, so every read or write of a  *)
(* shared object (a dict, a set, a Queue, an Event) is a step of its own.  *)
(***************************************************************************)
EXTENDS Integers, Sequences, FiniteSets, TLC

(***************************************************************************)
(* Bounds of the model.                                                    *)
(***************************************************************************)
MaxEvents == 2
MaxUpdates == 2
MaxChain == 4
MaxLogins == 7
MaxCommands == 5
MaxPower == 6
MaxSamples == 95
MaxFloods == 5
MaxValidate == 2
MaxSyn == 2
MaxContext == 2
MaxOrder == 3
MaxBrute == 6
MaxPrivilege == 4
MaxReach == 3

(***************************************************************************)
(* DetectionConfig (rules.py).  Times are in seconds, power in percent,    *)
(* resource usage in hundredths.                                           *)
(***************************************************************************)
FAILED_LOGIN_LIMIT == 5
FAILED_LOGIN_WINDOW == 60
COMMAND_SPAM_LIMIT == 3
COMMAND_SPAM_WINDOW == 30
POWER_ANALYSIS_WINDOW == 300
POWER_MIN_SAMPLES == 5
SYN_FLOOD_RATE == 100
RESOURCE_HIGH_USAGE == 80
RESOURCE_WINDOW == 90
MQTT_FLOOD_WINDOW == 100

(***************************************************************************)
(* The values the model draws its inputs from.                             *)
(***************************************************************************)
None == "None"
DevA == "192.168.0.10"
DevB == "192.168.0.20"
Devices == {DevA, DevB}
PrivateAddrs == {DevA, DevB, "192.168.99.99"}
PublicAddrs == {"11.22.33.44"}
\* The origin addresses events may carry: the registered devices, a public
\* address and a string that is no address.
Origins == Devices \cup PublicAddrs \cup {"invalid-ip"}
Threads == {"t1", "t2"}
Users == {"eve", "admin"}
CommandSets == {{"shutdown"}, {"shutdown", "reboot"}}

\* A worker thread and a Queue object are named by the device they were made
\* for and the submitter thread that made them: _ensure_device_worker makes at
\* most one of each per call, and a thread passes its membership test for a
\* device at most once.
WIds == Origins \X Threads
QIds == Origins \X Threads
DevOf(x) == x[1]

\* A context value: a number or a string (Python is dynamically typed).
Num(n) == <<"num", n>>
Str(s) == <<"str", s>>
IsNum(v) == v[1] = "num"

(***************************************************************************)
(* Event (event.py).  context is a dict: a function on the keys present.   *)
(***************************************************************************)
MkEvent(id, name, role, user, src, ts, ctx) ==
    [id |-> id, event_name |-> name, user_role |-> role, user_id |-> user,
     source_id |-> src, timestamp |-> ts, context |-> ctx]

HasKey(ctx, k) == k \in DOMAIN ctx

\* The events the submitters of the concurrent specification send: a failed
\* login, a monitored control command, a SYN report above the flood rate, and a
\* SYN report whose rate is not a number.
EventShapes == {"login_fail", "command", "syn_flood", "syn_bad"}

ShapeEvent(shape, id, src) ==
    CASE shape = "login_fail" ->
           MkEvent(id, "login_attempt", "USER", "eve", src, id,
                   [k \in {"success"} |-> FALSE])
      [] shape = "command" ->
           MkEvent(id, "control_command", "USER", "eve", src, id,
                   [k \in {"command"} |-> Str("shutdown")])
      [] shape = "syn_flood" ->
           MkEvent(id, "packet_syn", "USER", "eve", src, id,
                   [k \in {"rate"} |-> Num(150)])
      [] shape = "syn_bad" ->
           MkEvent(id, "packet_syn", "USER", "eve", src, id,
                   [k \in {"rate"} |-> Str("fast")])


(***************************************************************************)
(* Verdict and the per-engine sliding-window state (rules.py).             *)
(***************************************************************************)
Verdict(suspicious, rule_hit, detail) ==
    [suspicious |-> suspicious, rule_hit |-> rule_hit, detail |-> detail]

NoDetail == [k \in {} |-> None]

\* AttackRules.__init__: every window empty.  The defaultdicts are total
\* functions whose missing keys read as the empty deque.
NewRules ==
    [failed_logins  |-> [u \in Users |-> <<>>],
     command_bursts |-> [u \in Users |-> <<>>],
     power_readings |-> [a \in PrivateAddrs |-> <<>>],
     resource_usage |-> [a \in PrivateAddrs |-> <<>>],
     mqtt_events    |-> <<>>]

\* A window entry is a raw timestamp <<t>> or a tuple <<value, t>>
\* (the isinstance test of _clean_sliding_window).
Stamp(t) == <<t>>
Sample(v, t) == <<v, t>>
ItemTime(item) == IF Len(item) = 2 THEN item[2] ELSE item[1]

\* A plausible slip: an entry exactly max_age old is evicted too.
RECURSIVE CleanSlidingWindowStrict(_, _, _)
CleanSlidingWindowStrict(window, current_time, max_age) ==
    IF window = <<>> THEN window
    ELSE IF current_time - ItemTime(Head(window)) >= max_age
         THEN CleanSlidingWindowStrict(Tail(window), current_time, max_age)
         ELSE window

RECURSIVE CleanSlidingWindow(_, _, _)
CleanSlidingWindow(window, current_time, max_age) ==
    IF window = <<>> THEN window
    ELSE IF current_time - ItemTime(Head(window)) > max_age
         THEN CleanSlidingWindow(Tail(window), current_time, max_age)
         ELSE window

RECURSIVE SumValues(_)
SumValues(window) ==
    IF window = <<>> THEN 0
    ELSE IF Len(window) = 1 THEN window[1][1]
    ELSE LET half == Len(window) \div 2
         IN  SumValues(SubSeq(window, 1, half))
               + SumValues(SubSeq(window, half + 1, Len(window)))

IpClass(source_ip) ==
    IF source_ip \in PrivateAddrs THEN "private"
    ELSE IF source_ip \in PublicAddrs THEN "public"
    ELSE "invalid"

\* What one step of the rule chain gives back: whether it produced a verdict
\* (hit), the verdict, the engine's windows afterwards, whether
\* suspicious_flag.set() was called, and whether it raised instead of returning.
Pass(r) ==
    [hit |-> FALSE, verdict |-> Verdict(FALSE, None, NoDetail), rules |-> r,
     flag_set |-> FALSE, raised |-> FALSE]
\* A plausible slip: every rule that produces a verdict also sets the flag.
HitFlagging(v, r, f) ==
    [hit |-> TRUE, verdict |-> v, rules |-> r, flag_set |-> TRUE, raised |-> FALSE]

Hit(v, r, f) ==
    [hit |-> TRUE, verdict |-> v, rules |-> r, flag_set |-> f, raised |-> FALSE]
Raise(r, f) ==
    [hit |-> FALSE, verdict |-> Verdict(FALSE, None, NoDetail), rules |-> r,
     flag_set |-> f, raised |-> TRUE]

\* A plausible slip: the public-address branch forgets suspicious_flag.set().
ValidateNetworkAccessQuiet(event, r) ==
    CASE IpClass(event.source_id) = "invalid" ->
           Hit(Verdict(TRUE, "INVALID_IP_FORMAT", [ip |-> event.source_id]), r, TRUE)
      [] IpClass(event.source_id) = "public" ->
           Hit(Verdict(TRUE, "NON_LAN_ACCESS", [ip |-> event.source_id]), r, FALSE)
      [] OTHER -> Pass(r)

ValidateNetworkAccess(event, r) ==
    CASE IpClass(event.source_id) = "invalid" ->
           Hit(Verdict(TRUE, "INVALID_IP_FORMAT", [ip |-> event.source_id]), r, TRUE)
      [] IpClass(event.source_id) = "public" ->
           Hit(Verdict(TRUE, "NON_LAN_ACCESS", [ip |-> event.source_id]), r, TRUE)
      [] OTHER -> Pass(r)

\* A plausible slip: the role check left out.
ValidateUserAndDeviceAnyRole(event, reg, r) ==
    IF event.source_id \notin DOMAIN reg.devices
    THEN Hit(Verdict(FALSE, "UNKNOWN_DEVICE", [ip |-> event.source_id]), r, FALSE)
    ELSE IF event.user_id \notin DOMAIN reg.users
    THEN Hit(Verdict(FALSE, "UNKNOWN_USER", [user |-> event.user_id]), r, FALSE)
    ELSE IF event.user_role = "USER" /\ reg.users[event.user_id] # "USER"
    THEN Hit(Verdict(FALSE, "PRIVILEGE_ESCALATION",
                     [user |-> event.user_id, claimed_role |-> event.user_role]),
             r, FALSE)
    ELSE Pass(r)

\* The privilege levels, lowest first.
RoleRank(role) ==
    CASE role = "USER" -> 1 [] role = "MANAGER" -> 2 [] role = "ADMIN" -> 3
      [] OTHER -> 0

\* A plausible slip: every claimed role above the registered maximum is
\* reported as an escalation.
ValidateUserAndDeviceRanked(event, reg, r) ==
    IF event.source_id \notin DOMAIN reg.devices
    THEN Hit(Verdict(FALSE, "UNKNOWN_DEVICE", [ip |-> event.source_id]), r, FALSE)
    ELSE IF event.user_id \notin DOMAIN reg.users
    THEN Hit(Verdict(FALSE, "UNKNOWN_USER", [user |-> event.user_id]), r, FALSE)
    ELSE IF event.user_role \notin {"ADMIN", "MANAGER", "USER"}
    THEN Hit(Verdict(FALSE, "INVALID_ROLE", [role |-> event.user_role]), r, FALSE)
    ELSE IF RoleRank(event.user_role) > RoleRank(reg.users[event.user_id])
    THEN Hit(Verdict(FALSE, "PRIVILEGE_ESCALATION",
                     [user |-> event.user_id, claimed_role |-> event.user_role]),
             r, FALSE)
    ELSE Pass(r)

\* reg is the registry the engine reads: [users, devices, commands].
ValidateUserAndDevice(event, reg, r) ==
    IF event.source_id \notin DOMAIN reg.devices
    THEN Hit(Verdict(FALSE, "UNKNOWN_DEVICE", [ip |-> event.source_id]), r, FALSE)
    ELSE IF event.user_id \notin DOMAIN reg.users
    THEN Hit(Verdict(FALSE, "UNKNOWN_USER", [user |-> event.user_id]), r, FALSE)
    ELSE IF event.user_role \notin {"ADMIN", "MANAGER", "USER"}
    THEN Hit(Verdict(FALSE, "INVALID_ROLE", [role |-> event.user_role]), r, FALSE)
    ELSE IF event.user_role = "USER" /\ reg.users[event.user_id] # "USER"
    THEN Hit(Verdict(FALSE, "PRIVILEGE_ESCALATION",
                     [user |-> event.user_id, claimed_role |-> event.user_role]),
             r, FALSE)
    ELSE Pass(r)

\* not event.context.get("success", True)
LoginFailed(event) ==
    HasKey(event.context, "success") /\ event.context["success"] = FALSE

\* A plausible slip: the limit itself already counts as a brute-force attack.
DetectBruteForceAtLimit(event, r) ==
    IF event.event_name = "login_attempt" /\ LoginFailed(event)
    THEN LET window == CleanSlidingWindow(
                           Append(r.failed_logins[event.user_id],
                                  Stamp(event.timestamp)),
                           event.timestamp, FAILED_LOGIN_WINDOW)
             r2 == [r EXCEPT !.failed_logins[event.user_id] = window]
         IN  IF Len(window) >= FAILED_LOGIN_LIMIT
             THEN Hit(Verdict(TRUE, "BRUTE_FORCE_LOGIN",
                              [user |-> event.user_id, attempts |-> Len(window)]),
                      r2, TRUE)
             ELSE Pass(r2)
    ELSE Pass(r)

DetectBruteForce(event, r) ==
    IF event.event_name = "login_attempt" /\ LoginFailed(event)
    THEN LET window == CleanSlidingWindow(
                           Append(r.failed_logins[event.user_id],
                                  Stamp(event.timestamp)),
                           event.timestamp, FAILED_LOGIN_WINDOW)
             r2 == [r EXCEPT !.failed_logins[event.user_id] = window]
         IN  IF Len(window) > FAILED_LOGIN_LIMIT
             THEN Hit(Verdict(TRUE, "BRUTE_FORCE_LOGIN",
                              [user |-> event.user_id, attempts |-> Len(window)]),
                      r2, TRUE)
             ELSE Pass(r2)
    ELSE Pass(r)

\* event.context.get("command") in self.exploitable_commands
CommandMonitored(event, commands) ==
    /\ HasKey(event.context, "command")
    /\ ~IsNum(event.context["command"])
    /\ event.context["command"][2] \in commands

\* A plausible slip: the ADMIN exemption forgotten.
DetectCommandInjectionNoExempt(event, reg, r) ==
    IF event.event_name = "control_command" /\ CommandMonitored(event, reg.commands)
    THEN LET window == CleanSlidingWindow(
                           Append(r.command_bursts[event.user_id],
                                  Stamp(event.timestamp)),
                           event.timestamp, COMMAND_SPAM_WINDOW)
             r2 == [r EXCEPT !.command_bursts[event.user_id] = window]
         IN  IF Len(window) > COMMAND_SPAM_LIMIT
             THEN Hit(Verdict(TRUE, "COMMAND_INJECTION",
                              [command |-> event.context["command"][2],
                               user |-> event.user_id, count |-> Len(window)]),
                      r2, TRUE)
             ELSE Pass(r2)
    ELSE Pass(r)

DetectCommandInjection(event, reg, r) ==
    IF event.event_name = "control_command" /\ CommandMonitored(event, reg.commands)
    THEN LET window == CleanSlidingWindow(
                           Append(r.command_bursts[event.user_id],
                                  Stamp(event.timestamp)),
                           event.timestamp, COMMAND_SPAM_WINDOW)
             r2 == [r EXCEPT !.command_bursts[event.user_id] = window]
         IN  IF Len(window) > COMMAND_SPAM_LIMIT /\ event.user_role # "ADMIN"
             THEN Hit(Verdict(TRUE, "COMMAND_INJECTION",
                              [command |-> event.context["command"][2],
                               user |-> event.user_id, count |-> Len(window)]),
                      r2, TRUE)
             ELSE Pass(r2)
    ELSE Pass(r)

\* float(event.context["percent"]) succeeds
PercentNumeric(event) ==
    HasKey(event.context, "percent") /\ IsNum(event.context["percent"])

\* A plausible slip: the lower end of the range forgotten.
InRangeAbove(power_pct) == power_pct <= 100

\* 0 <= power_pct <= 100
InRange(power_pct) == 0 <= power_pct /\ power_pct <= 100

DetectPowerAnomaly(event, reg, r) ==
    IF event.event_name # "power_consumption" THEN Pass(r)
    ELSE IF ~PercentNumeric(event)
    THEN Hit(Verdict(FALSE, "INVALID_POWER_DATA", NoDetail), r, FALSE)
    ELSE LET power_pct == event.context["percent"][2] IN
    IF ~InRange(power_pct)
    THEN Hit(Verdict(FALSE, "POWER_OUT_OF_RANGE", [value |-> power_pct]), r, FALSE)
    ELSE LET readings == CleanSlidingWindow(r.power_readings[event.source_id],
                                            event.timestamp, POWER_ANALYSIS_WINDOW)
             appended == [r EXCEPT !.power_readings[event.source_id] =
                             Append(readings, Sample(power_pct, event.timestamp))]
             cleaned == [r EXCEPT !.power_readings[event.source_id] = readings]
             total == SumValues(readings)
         IN  IF Len(readings) < POWER_MIN_SAMPLES THEN Pass(appended)
             \* power_pct > 1.5 * (total / len), in integers
             ELSE IF 2 * power_pct * Len(readings) > 3 * total
             THEN IF total = 0
                  \* power_pct / baseline_mean divides by zero after the flag is
                  \* set and before the reading is appended
                  THEN Raise(cleaned, TRUE)
                  ELSE Hit(Verdict(TRUE, "POWER_ANOMALY",
                                   [current_value |-> power_pct,
                                    baseline_sum |-> total,
                                    samples |-> Len(readings)]),
                           appended, TRUE)
             ELSE Pass(appended)

\* A plausible slip: a rate equal to the limit counts as a flood.
DetectNetworkAttackAtLimit(event, r) ==
    IF event.event_name = "packet_syn"
    THEN LET rate == IF HasKey(event.context, "rate")
                     THEN event.context["rate"] ELSE Num(0)
         IN  IF ~IsNum(rate)
             THEN Raise(r, FALSE)
             ELSE IF rate[2] >= SYN_FLOOD_RATE
             THEN Hit(Verdict(TRUE, "SYN_FLOOD",
                              [user |-> IF HasKey(event.context, "multi_user")
                                           /\ event.context["multi_user"] = TRUE
                                        THEN "multiple" ELSE event.user_id,
                               rate |-> rate[2], source |-> event.source_id]),
                      r, TRUE)
             ELSE Pass(r)
    ELSE Pass(r)

DetectNetworkAttack(event, r) ==
    IF event.event_name = "packet_syn"
    THEN LET rate == IF HasKey(event.context, "rate")
                     THEN event.context["rate"] ELSE Num(0)
         IN  IF ~IsNum(rate)
             THEN Raise(r, FALSE)   \* str > int raises TypeError
             ELSE IF rate[2] > SYN_FLOOD_RATE
             THEN Hit(Verdict(TRUE, "SYN_FLOOD",
                              [user |-> IF HasKey(event.context, "multi_user")
                                           /\ event.context["multi_user"] = TRUE
                                        THEN "multiple" ELSE event.user_id,
                               rate |-> rate[2], source |-> event.source_id]),
                      r, TRUE)
             ELSE Pass(r)
    ELSE Pass(r)

\* A plausible slip: a sample exactly at the threshold does not count as high.
AllHighStrict(window) ==
    \A i \in 1..Len(window) : window[i][1] > RESOURCE_HIGH_USAGE

\* A plausible slip: only the newest sample is compared with the threshold.
AllHighNewest(window) ==
    window = <<>> \/ window[Len(window)][1] >= RESOURCE_HIGH_USAGE

\* all(usage >= RESOURCE_HIGH_USAGE for usage, _ in window)
AllHigh(window) ==
    \A i \in 1..Len(window) : window[i][1] >= RESOURCE_HIGH_USAGE

DetectResourceAbuse(event, r) ==
    IF event.event_name = "system_resource_usage"
       /\ HasKey(event.context, "usage") /\ IsNum(event.context["usage"])
    THEN LET window == CleanSlidingWindow(
                           Append(r.resource_usage[event.source_id],
                                  Sample(event.context["usage"][2], event.timestamp)),
                           event.timestamp, RESOURCE_WINDOW)
             r2 == [r EXCEPT !.resource_usage[event.source_id] = window]
         IN  IF Len(window) >= RESOURCE_WINDOW /\ AllHigh(window)
             THEN Hit(Verdict(TRUE, "RESOURCE_EXHAUSTION",
                              [duration_seconds |-> Len(window),
                               usage_sum |-> SumValues(window)]),
                      r2, TRUE)
             ELSE Pass(r2)
    ELSE Pass(r)

\* A plausible slip: the flood needs more than two occurrences.
DetectMessageFloodOverTwo(event, r) ==
    IF event.event_name = "10000_messages_received"
    THEN LET window == CleanSlidingWindow(
                           Append(r.mqtt_events, Stamp(event.timestamp)),
                           event.timestamp, MQTT_FLOOD_WINDOW)
             r2 == [r EXCEPT !.mqtt_events = window]
         IN  IF Len(window) > 2
             THEN Hit(Verdict(TRUE, "MESSAGE_FLOOD",
                              [events_in_window |-> Len(window),
                               estimated_messages |-> Len(window) * 10000]),
                      r2, TRUE)
             ELSE Pass(r2)
    ELSE Pass(r)

DetectMessageFlood(event, r) ==
    IF event.event_name = "10000_messages_received"
    THEN LET window == CleanSlidingWindow(
                           Append(r.mqtt_events, Stamp(event.timestamp)),
                           event.timestamp, MQTT_FLOOD_WINDOW)
             r2 == [r EXCEPT !.mqtt_events = window]
         IN  IF Len(window) >= 2
             THEN Hit(Verdict(TRUE, "MESSAGE_FLOOD",
                              [events_in_window |-> Len(window),
                               estimated_messages |-> Len(window) * 10000]),
                      r2, TRUE)
             ELSE Pass(r2)
    ELSE Pass(r)

\* One more link of the chain: prev stands unless it passed without raising.
Then(prev, next) == IF prev.hit \/ prev.raised THEN prev ELSE next

\* A plausible slip: the device and user validation called before the
\* network validation.
RuleDeviceFirst(k, event, reg, r) ==
    CASE k = 1 -> ValidateUserAndDevice(event, reg, r)
      [] k = 2 -> ValidateNetworkAccess(event, r)
      [] k = 3 -> DetectBruteForce(event, r)
      [] k = 4 -> DetectCommandInjection(event, reg, r)
      [] k = 5 -> DetectPowerAnomaly(event, reg, r)
      [] k = 6 -> DetectNetworkAttack(event, r)
      [] k = 7 -> DetectResourceAbuse(event, r)
      [] k = 8 -> DetectMessageFlood(event, r)

\* The checks of evaluate in the order it calls them: the two validations,
\* then the list of detectors.
Rule(k, event, reg, r) ==
    CASE k = 1 -> ValidateNetworkAccess(event, r)
      [] k = 2 -> ValidateUserAndDevice(event, reg, r)
      [] k = 3 -> DetectBruteForce(event, r)
      [] k = 4 -> DetectCommandInjection(event, reg, r)
      [] k = 5 -> DetectPowerAnomaly(event, reg, r)
      [] k = 6 -> DetectNetworkAttack(event, r)
      [] k = 7 -> DetectResourceAbuse(event, r)
      [] k = 8 -> DetectMessageFlood(event, r)

\* The one element of a singleton set.
Only(S) == CHOOSE x \in S : TRUE

\* verdict = detector(event); if verdict: return verdict -- each check is
\* called once, on the windows the checks before it left.
RECURSIVE RunRules(_, _, _, _)
RunRules(k, event, reg, prev) ==
    IF k > 8 \/ prev.hit \/ prev.raised THEN prev
    ELSE Only({RunRules(k + 1, event, reg, s) :
                  s \in {Rule(k, event, reg, prev.rules)}})

\* AttackRules.evaluate: the first rule that returns a verdict ends the chain.
Evaluate(event, reg, r) == RunRules(1, event, reg, Pass(r))

(***************************************************************************)
(* State of the engine (AttackDetector.__init__) and of its threads.       *)
(***************************************************************************)
VARIABLES
    verified_users,        \* dict user_id -> max privilege
    known_devices,         \* dict device_ip -> device type
    exploitable_commands,  \* the set object shared with every engine
    suspicious_flag,       \* threading.Event: is_set()
    shutdown_event,        \* threading.Event: is_set()
    device_queues,         \* dict device_ip -> Queue (NoId: key absent)
    queue_keys,            \* its keys in insertion order
    device_threads,        \* dict device_ip -> Thread (NoId: key absent)
    thread_keys,           \* its keys in insertion order
    qmade,                 \* the Queue objects constructed so far
    qitems,                \* Queue.queue of every Queue object
    unfinished,            \* Queue.unfinished_tasks of every Queue object
    wpc,                   \* where each worker thread is
    wqueue,                \* a worker's local device_queue
    wevent,                \* the event a worker has dequeued
    wres,                  \* the verdict evaluate returned for it
    rules,                 \* a worker's AttackRules instance
    hpc,                   \* where each handle_event caller is
    hev,                   \* its event argument
    upc,                   \* update_command_list: "idle" or "cleared"
    uarg,                  \* its argument
    uold,                  \* the set's content when the call began
    nupdates,              \* calls of update_command_list so far
    spc,                   \* where the shutdown caller is
    sidx,                  \* shutdown's position in the dict it iterates
    slen,                  \* that dict's size when the iteration began
    scur,                  \* the Queue or Thread object it waits for
    sresult,               \* what shutdown returned
    sclean,                \* whether all was drained and dead when it returned
    sbacklog,              \* ids of the events queued when shutdown was called
    log,                   \* per device, the verdicts handed to LogWriter.write, in order
    dequeued,              \* per device, the events dequeued, in order
    nextId,                \* id (and timestamp) of the next event submitted
    cmd_seen,              \* the command set the last membership test read
    cmd_valid,             \* the complete sets that test could rightly have read
    instance,              \* AttackDetector._instance: 0 for None, else the object made
    initialized,           \* its _initialized attribute: "absent", "False" or "True"
    ninit,                 \* how often the body of __init__ has set up the state
    cpc,                   \* where each caller of AttackDetector() is
    gpc,                   \* where the caller of get_queue_size(None) is
    gidx,                  \* its position in the dict it iterates
    glen,                  \* that dict's size when the iteration began
    gsum                   \* the sizes it has added up so far

vars == <<verified_users, known_devices, exploitable_commands, suspicious_flag,
          shutdown_event, device_queues, queue_keys, device_threads, thread_keys,
          qmade, qitems, unfinished, wpc, wqueue, wevent, wres, rules, hpc, hev,
          upc, uarg, uold, nupdates, spc, sidx, slen, scur, sresult, sclean,
          sbacklog, log, dequeued, nextId, cmd_seen, cmd_valid, instance,
          initialized, ninit, cpc, gpc, gidx, glen, gsum>>

registryVars == <<verified_users, known_devices>>
queueMapVars == <<device_queues, queue_keys, device_threads, thread_keys, qmade>>
workerVars == <<wpc, wqueue, wevent, wres, rules>>
updateVars == <<upc, uarg, uold, nupdates>>
shutdownVars == <<spc, sidx, slen, scur, sresult, sclean, sbacklog>>
ghostCmdVars == <<cmd_seen, cmd_valid>>
constructVars == <<instance, initialized, ninit, cpc>>
sizeVars == <<gpc, gidx, glen, gsum>>

NoId == <<>>
NoEvent == MkEvent(0, "none", "none", "none", "none", 0, [k \in {} |-> None])

\* The state after construction and the configuration calls of a deployment
\* (update_user, update_device, update_command_list before any event).
Init ==
    /\ verified_users = [u \in Users |-> IF u = "admin" THEN "ADMIN" ELSE "USER"]
    /\ known_devices = [d \in Devices |-> "sensor"]
    /\ exploitable_commands = {"shutdown"}
    /\ suspicious_flag = FALSE
    /\ shutdown_event = FALSE
    /\ device_queues = [d \in Origins |-> NoId]
    /\ queue_keys = <<>>
    /\ device_threads = [d \in Origins |-> NoId]
    /\ thread_keys = <<>>
    /\ qmade = {}
    /\ qitems = [q \in QIds |-> <<>>]
    /\ unfinished = [q \in QIds |-> 0]
    /\ wpc = [w \in WIds |-> "none"]
    /\ wqueue = [w \in WIds |-> NoId]
    /\ wevent = [w \in WIds |-> NoEvent]
    /\ wres = [w \in WIds |-> Verdict(FALSE, None, NoDetail)]
    /\ rules = [w \in WIds |-> NewRules]
    /\ hpc = [t \in Threads |-> "idle"]
    /\ hev = [t \in Threads |-> NoEvent]
    /\ upc = "idle"
    /\ uarg = {}
    /\ uold = {}
    /\ nupdates = 0
    /\ spc = "idle"
    /\ sidx = 0
    /\ slen = 0
    /\ scur = NoId
    /\ sresult = FALSE
    /\ sclean = FALSE
    /\ sbacklog = {}
    /\ log = [d \in Origins |-> <<>>]
    /\ dequeued = [d \in Origins |-> <<>>]
    /\ nextId = 1
    /\ cmd_seen = {"shutdown"}
    /\ cmd_valid = {{"shutdown"}}
    /\ instance = 1
    /\ initialized = "True"
    /\ ninit = 1
    /\ cpc = [t \in Threads |-> "returned"]
    /\ gpc = "idle"
    /\ gidx = 0
    /\ glen = 0
    /\ gsum = 0

\* A plausible slip: the engines are handed copies of the tables made when the
\* deployment was configured, not the tables themselves.
RegistryAtStartup ==
    [users |-> [u \in Users |-> IF u = "admin" THEN "ADMIN" ELSE "USER"],
     devices |-> [d \in Devices |-> "sensor"],
     commands |-> {"shutdown"}]

\* The tables the engines hold references to (AttackRules.__init__ keeps the
\* objects it is given), as they are now.
Registry ==
    [users |-> verified_users, devices |-> known_devices,
     commands |-> exploitable_commands]

\* A plausible slip: the actor looked up by indexing a table that makes an
\* entry for a key it lacks (a defaultdict, or setdefault).
LookedUpInserting(reg, event) ==
    [reg EXCEPT !.users =
        [u \in DOMAIN reg.users \cup {event.user_id} |->
            IF u \in DOMAIN reg.users THEN reg.users[u] ELSE None]]

\* The tables after evaluate(event) has read them: `source_id not in
\* known_devices`, verified_users.get(user_id) and `cmd in
\* exploitable_commands` read a dict or set and add no entry.
LookedUp(reg, event) == reg

SeqHas(seq, x) == \E i \in 1..Len(seq) : seq[i] = x
AddKey(keys, k) == IF SeqHas(keys, k) THEN keys ELSE Append(keys, k)

(***************************************************************************)
(* handle_event and _ensure_device_worker, one caller thread t.            *)
(***************************************************************************)
\* "device_ip not in self._device_threads"
WorkerMissing(threads, device_ip) == threads[device_ip] = NoId

\* handle_event(event) is entered with an event from one of the addresses and
\* _ensure_device_worker tests the map.
HandleEventFrom(t, addresses) ==
    /\ hpc[t] = "idle"
    /\ nextId <= MaxEvents
    /\ \E d \in addresses, shape \in EventShapes :
          /\ hev' = [hev EXCEPT ![t] = ShapeEvent(shape, nextId, d)]
          /\ hpc' = [hpc EXCEPT ![t] =
                        IF WorkerMissing(device_threads, d) THEN "create" ELSE "put"]
    /\ nextId' = nextId + 1
    /\ UNCHANGED <<constructVars, sizeVars,
                   registryVars, exploitable_commands, suspicious_flag,
                   shutdown_event, queueMapVars, qitems, unfinished, workerVars,
                   updateVars, shutdownVars, log, dequeued, ghostCmdVars>>

\* handle_event with an event of a registered device.
HandleEventCall(t) == HandleEventFrom(t, Devices)

\* A plausible slip: the worker is started and never entered into the map.
EnsureRegisterForgetting(t) ==
    /\ hpc[t] = "register"
    /\ hpc' = [hpc EXCEPT ![t] = "put"]
    /\ UNCHANGED <<constructVars, sizeVars,
                   registryVars, exploitable_commands, suspicious_flag,
                   shutdown_event, queueMapVars, qitems,
                   unfinished, workerVars, hev, updateVars, shutdownVars, log,
                   dequeued, nextId, ghostCmdVars>>

\* self._device_queues[device_ip] = Queue()
EnsureCreateQueue(t) ==
    /\ hpc[t] = "create"
    /\ LET d == hev[t].source_id IN
          /\ qmade' = qmade \cup {<<d, t>>}
          /\ device_queues' = [device_queues EXCEPT ![d] = <<d, t>>]
          /\ queue_keys' = AddKey(queue_keys, d)
    /\ hpc' = [hpc EXCEPT ![t] = "start"]
    /\ UNCHANGED <<constructVars, sizeVars,
                   registryVars, exploitable_commands, suspicious_flag,
                   shutdown_event, device_threads, thread_keys, qitems, unfinished,
                   workerVars, hev, updateVars, shutdownVars, log, dequeued,
                   nextId, ghostCmdVars>>

\* worker = threading.Thread(...); worker.start()
EnsureStartWorker(t) ==
    /\ hpc[t] = "start"
    /\ wpc' = [wpc EXCEPT ![<<hev[t].source_id, t>>] = "start"]
    /\ hpc' = [hpc EXCEPT ![t] = "register"]
    /\ UNCHANGED <<constructVars, sizeVars,
                   registryVars, exploitable_commands, suspicious_flag,
                   shutdown_event, queueMapVars, qitems, unfinished, wqueue,
                   wevent, wres, rules, hev, updateVars, shutdownVars, log,
                   dequeued, nextId, ghostCmdVars>>

\* self._device_threads[device_ip] = worker
EnsureRegister(t) ==
    /\ hpc[t] = "register"
    /\ LET d == hev[t].source_id IN
          /\ device_threads' = [device_threads EXCEPT ![d] = <<d, t>>]
          /\ thread_keys' = AddKey(thread_keys, d)
    /\ hpc' = [hpc EXCEPT ![t] = "put"]
    /\ UNCHANGED <<constructVars, sizeVars,
                   registryVars, exploitable_commands, suspicious_flag,
                   shutdown_event, device_queues, queue_keys, qmade, qitems,
                   unfinished, workerVars, hev, updateVars, shutdownVars, log,
                   dequeued, nextId, ghostCmdVars>>

\* A plausible slip: a bounded queue, Queue(maxsize=1), whose put waits for room.
PutBlocksWhenFull(items) == Len(items) >= 1

\* Queue() has no maxsize: put never waits for room.
PutBlocks(items) == FALSE

\* self._device_queues[device_ip].put(event)
HandleEventPut(t) ==
    /\ hpc[t] = "put"
    /\ LET q == device_queues[hev[t].source_id] IN
          /\ ~PutBlocks(qitems[q])
          /\ qitems' = [qitems EXCEPT ![q] = Append(@, hev[t])]
          /\ unfinished' = [unfinished EXCEPT ![q] = @ + 1]
    /\ hpc' = [hpc EXCEPT ![t] = "idle"]
    /\ hev' = [hev EXCEPT ![t] = NoEvent]
    /\ UNCHANGED <<constructVars, sizeVars,
                   registryVars, exploitable_commands, suspicious_flag,
                   shutdown_event, queueMapVars, workerVars, updateVars,
                   shutdownVars, log, dequeued, nextId, ghostCmdVars>>

(***************************************************************************)
(* get_queue_size(device_ip).                                              *)
(***************************************************************************)
\* self._device_queues.get(device_ip, Queue()).qsize(): the size of the queue
\* the map holds for the address, or of a fresh queue that is not kept
QueueSizeOf(device_ip) ==
    IF device_ip \in DOMAIN device_queues /\ device_queues[device_ip] # NoId
    THEN Len(qitems[device_queues[device_ip]])
    ELSE 0

\* sum(queue.qsize() for queue in self._device_queues.values())
RECURSIVE SumQueueSizes(_)
SumQueueSizes(keys) ==
    IF keys = <<>> THEN 0
    ELSE QueueSizeOf(Head(keys)) + SumQueueSizes(Tail(keys))

\* What get_queue_size(device_ip) returns in the current state; None (or any
\* falsy argument) asks for the total.
GetQueueSize(device_ip) ==
    IF device_ip # None THEN QueueSizeOf(device_ip)
    ELSE SumQueueSizes(queue_keys)

\* The call itself: it reads the map and the queues and writes nothing.
GetQueueSizeCall(device_ip) ==
    /\ GetQueueSize(device_ip) >= 0
    /\ UNCHANGED vars

(***************************************************************************)
(* _get_device_worker, the thread w of one device.                         *)
(***************************************************************************)
\* rules = AttackRules(...) under the three registry locks, then
\* device_queue = self._device_queues[device_ip]
WorkerInit(w) ==
    /\ wpc[w] = "start"
    /\ upc = "idle"                       \* _commands_lock is free
    /\ rules' = [rules EXCEPT ![w] = NewRules]
    /\ wqueue' = [wqueue EXCEPT ![w] = device_queues[DevOf(w)]]
    /\ wpc' = [wpc EXCEPT ![w] = "loop"]
    /\ UNCHANGED <<constructVars, sizeVars,
                   registryVars, exploitable_commands, suspicious_flag,
                   shutdown_event, queueMapVars, qitems, unfinished, wevent, wres,
                   hpc, hev, updateVars, shutdownVars, log, dequeued, nextId,
                   ghostCmdVars>>

\* while not self._shutdown_event.is_set():
WorkerNext(stop) == IF stop THEN "done" ELSE "get"

WorkerCheck(w) ==
    /\ wpc[w] = "loop"
    /\ wpc' = [wpc EXCEPT ![w] = WorkerNext(shutdown_event)]
    /\ UNCHANGED <<constructVars, sizeVars,
                   registryVars, exploitable_commands, suspicious_flag,
                   shutdown_event, queueMapVars, qitems, unfinished, wqueue,
                   wevent, wres, rules, hpc, hev, updateVars, shutdownVars, log,
                   dequeued, nextId, ghostCmdVars>>

\* event = device_queue.get(timeout=0.1): an event, or Empty and round the loop
WorkerGet(w) ==
    /\ wpc[w] = "get"
    /\ LET q == wqueue[w] IN
       IF qitems[q] # <<>>
       THEN /\ wevent' = [wevent EXCEPT ![w] = Head(qitems[q])]
            /\ qitems' = [qitems EXCEPT ![q] = Tail(@)]
            /\ dequeued' = [dequeued EXCEPT ![DevOf(w)] = Append(@, Head(qitems[q]))]
            /\ wpc' = [wpc EXCEPT ![w] = "eval"]
       ELSE /\ wpc' = [wpc EXCEPT ![w] = "loop"]
            /\ UNCHANGED <<wevent, qitems, dequeued>>
    /\ UNCHANGED <<constructVars, sizeVars,
                   registryVars, exploitable_commands, suspicious_flag,
                   shutdown_event, queueMapVars, unfinished, wqueue, wres, rules,
                   hpc, hev, updateVars, shutdownVars, log, nextId, ghostCmdVars>>

\* A plausible slip: the flag assigned from the outcome of the evaluation.
FlagAssigned(flag, set_called) == set_called

\* The flag after an evaluation: threading.Event.set() only ever sets it.
FlagAfter(flag, set_called) == flag \/ set_called

\* Whether evaluate(event) gets as far as the membership test of
\* _detect_command_injection.
ReadsCommands(event, reg, r) ==
    /\ event.event_name = "control_command"
    /\ LET s1 == ValidateNetworkAccess(event, r)
           s2 == Then(s1, ValidateUserAndDevice(event, reg, s1.rules))
           s3 == Then(s2, DetectBruteForce(event, s2.rules))
       IN  ~(s3.hit \/ s3.raised)

\* verdict = rules.evaluate(event)
WorkerEvaluate(w) ==
    /\ wpc[w] = "eval"
    /\ LET res == Evaluate(wevent[w], Registry, rules[w]) IN
          /\ wres' = [wres EXCEPT ![w] = res.verdict]
          /\ rules' = [rules EXCEPT ![w] = res.rules]
          /\ suspicious_flag' = FlagAfter(suspicious_flag, res.flag_set)
          /\ wpc' = [wpc EXCEPT ![w] = IF res.raised THEN "except" ELSE "log"]
    /\ verified_users' = LookedUp(Registry, wevent[w]).users
    /\ known_devices' = LookedUp(Registry, wevent[w]).devices
    /\ exploitable_commands' = LookedUp(Registry, wevent[w]).commands
    /\ IF ReadsCommands(wevent[w], Registry, rules[w])
       THEN /\ cmd_seen' = exploitable_commands
            /\ cmd_valid' = IF upc = "idle" THEN {exploitable_commands}
                            ELSE {uold, uarg}
       ELSE UNCHANGED ghostCmdVars
    /\ UNCHANGED <<constructVars, sizeVars,
                   shutdown_event,
                   queueMapVars, qitems, unfinished, wqueue, wevent, hpc, hev,
                   updateVars, shutdownVars, log, dequeued, nextId>>

\* self._log_writer.write(verdict); device_queue.task_done()
WorkerLog(w) ==
    /\ wpc[w] = "log"
    /\ log' = [log EXCEPT ![DevOf(w)] =
                  Append(@, [id |-> wevent[w].id, verdict |-> wres[w]])]
    /\ unfinished' = [unfinished EXCEPT ![wqueue[w]] = @ - 1]
    /\ wevent' = [wevent EXCEPT ![w] = NoEvent]
    /\ wpc' = [wpc EXCEPT ![w] = "loop"]
    /\ UNCHANGED <<constructVars, sizeVars,
                   registryVars, exploitable_commands, suspicious_flag,
                   shutdown_event, queueMapVars, qitems, wqueue, wres, rules, hpc,
                   hev, updateVars, shutdownVars, dequeued, nextId, ghostCmdVars>>

\* except Exception: logging.error(...);
\*     if not device_queue.empty(): device_queue.task_done()
\* (WorkerExceptExits is the slip of a handler outside the loop: the thread ends.)
TaskDoneOnError(items, count) == IF items # <<>> THEN count - 1 ELSE count

WorkerExceptExits(w) ==
    /\ wpc[w] = "except"
    /\ unfinished' = [unfinished EXCEPT ![wqueue[w]] =
                         TaskDoneOnError(qitems[wqueue[w]], @)]
    /\ wevent' = [wevent EXCEPT ![w] = NoEvent]
    /\ wpc' = [wpc EXCEPT ![w] = "done"]
    /\ UNCHANGED <<constructVars, sizeVars,
                   registryVars, exploitable_commands, suspicious_flag,
                   shutdown_event, queueMapVars, qitems, wqueue, wres, rules, hpc,
                   hev, updateVars, shutdownVars, log, dequeued, nextId,
                   ghostCmdVars>>

WorkerExcept(w) ==
    /\ wpc[w] = "except"
    /\ unfinished' = [unfinished EXCEPT ![wqueue[w]] =
                         TaskDoneOnError(qitems[wqueue[w]], @)]
    /\ wevent' = [wevent EXCEPT ![w] = NoEvent]
    /\ wpc' = [wpc EXCEPT ![w] = "loop"]
    /\ UNCHANGED <<constructVars, sizeVars,
                   registryVars, exploitable_commands, suspicious_flag,
                   shutdown_event, queueMapVars, qitems, wqueue, wres, rules, hpc,
                   hev, updateVars, shutdownVars, log, dequeued, nextId,
                   ghostCmdVars>>

(***************************************************************************)
(* AttackDetector(): __new__ with its double-checked class lock, then      *)
(* __init__, which tests and sets _initialized without a lock.             *)
(***************************************************************************)
\* A dictionary with no keys.
EmptyDict == [k \in {} |-> None]

\* The class before any AttackDetector() call: _instance is None and no
\* instance attribute exists yet.
InitClass ==
    /\ instance = 0
    /\ initialized = "absent"
    /\ ninit = 0
    /\ cpc = [t \in Threads |-> "idle"]
    /\ gpc = "idle"
    /\ gidx = 0
    /\ glen = 0
    /\ gsum = 0
    /\ verified_users = EmptyDict
    /\ known_devices = EmptyDict
    /\ exploitable_commands = {}
    /\ suspicious_flag = FALSE
    /\ shutdown_event = FALSE
    /\ device_queues = [d \in Origins |-> NoId]
    /\ queue_keys = <<>>
    /\ device_threads = [d \in Origins |-> NoId]
    /\ thread_keys = <<>>
    /\ qmade = {}
    /\ qitems = [q \in QIds |-> <<>>]
    /\ unfinished = [q \in QIds |-> 0]
    /\ wpc = [w \in WIds |-> "none"]
    /\ wqueue = [w \in WIds |-> NoId]
    /\ wevent = [w \in WIds |-> NoEvent]
    /\ wres = [w \in WIds |-> Verdict(FALSE, None, NoDetail)]
    /\ rules = [w \in WIds |-> NewRules]
    /\ hpc = [t \in Threads |-> "idle"]
    /\ hev = [t \in Threads |-> NoEvent]
    /\ upc = "idle"
    /\ uarg = {}
    /\ uold = {}
    /\ nupdates = 0
    /\ spc = "idle"
    /\ sidx = 0
    /\ slen = 0
    /\ scur = NoId
    /\ sresult = FALSE
    /\ sclean = FALSE
    /\ sbacklog = {}
    /\ log = [d \in Origins |-> <<>>]
    /\ dequeued = [d \in Origins |-> <<>>]
    /\ nextId = 1
    /\ cmd_seen = {}
    /\ cmd_valid = {{}}

\* cls._lock is held by the thread that is inside the with block of __new__.
ClassLockHeld == \E t \in Threads : cpc[t] \in {"new_inner", "new_make", "new_flag"}

\* if cls._instance is None:  (outside the lock); otherwise return cls._instance
NewCheck(t) ==
    /\ cpc[t] = "idle"
    /\ cpc' = [cpc EXCEPT ![t] = IF instance = 0 THEN "new_lock" ELSE "init_check"]
    /\ UNCHANGED <<instance, initialized, ninit>>
    /\ UNCHANGED <<sizeVars, registryVars, exploitable_commands, suspicious_flag,
                   shutdown_event, queueMapVars, qitems, unfinished, workerVars,
                   hpc, hev, updateVars, shutdownVars, log, dequeued, nextId,
                   ghostCmdVars>>

\* with cls._lock:
NewLock(t) ==
    /\ cpc[t] = "new_lock"
    /\ ~ClassLockHeld
    /\ cpc' = [cpc EXCEPT ![t] = "new_inner"]
    /\ UNCHANGED <<instance, initialized, ninit>>
    /\ UNCHANGED <<sizeVars, registryVars, exploitable_commands, suspicious_flag,
                   shutdown_event, queueMapVars, qitems, unfinished, workerVars,
                   hpc, hev, updateVars, shutdownVars, log, dequeued, nextId,
                   ghostCmdVars>>

\* if cls._instance is None:  (under the lock); otherwise the lock is released
\* and cls._instance returned
NewInner(t) ==
    /\ cpc[t] = "new_inner"
    /\ cpc' = [cpc EXCEPT ![t] = IF instance = 0 THEN "new_make" ELSE "init_check"]
    /\ UNCHANGED <<instance, initialized, ninit>>
    /\ UNCHANGED <<sizeVars, registryVars, exploitable_commands, suspicious_flag,
                   shutdown_event, queueMapVars, qitems, unfinished, workerVars,
                   hpc, hev, updateVars, shutdownVars, log, dequeued, nextId,
                   ghostCmdVars>>

\* cls._instance = super().__new__(cls): a fresh object without attributes
NewMake(t) ==
    /\ cpc[t] = "new_make"
    /\ instance' = instance + 1
    /\ initialized' = "absent"
    /\ cpc' = [cpc EXCEPT ![t] = "new_flag"]
    /\ UNCHANGED ninit
    /\ UNCHANGED <<sizeVars, registryVars, exploitable_commands, suspicious_flag,
                   shutdown_event, queueMapVars, qitems, unfinished, workerVars,
                   hpc, hev, updateVars, shutdownVars, log, dequeued, nextId,
                   ghostCmdVars>>

\* cls._instance._initialized = False; the lock is released and cls._instance
\* returned
NewFlag(t) ==
    /\ cpc[t] = "new_flag"
    /\ initialized' = "False"
    /\ cpc' = [cpc EXCEPT ![t] = "init_check"]
    /\ UNCHANGED <<instance, ninit>>
    /\ UNCHANGED <<sizeVars, registryVars, exploitable_commands, suspicious_flag,
                   shutdown_event, queueMapVars, qitems, unfinished, workerVars,
                   hpc, hev, updateVars, shutdownVars, log, dequeued, nextId,
                   ghostCmdVars>>

\* __init__: if self._initialized: return.  Reading an attribute that has not
\* been assigned yet raises AttributeError.
InitNext(flag) ==
    CASE flag = "True" -> "returned"
      [] flag = "False" -> "init_body"
      [] OTHER -> "raised"

InitCheck(t) ==
    /\ cpc[t] = "init_check"
    /\ cpc' = [cpc EXCEPT ![t] = InitNext(initialized)]
    /\ UNCHANGED <<instance, initialized, ninit>>
    /\ UNCHANGED <<sizeVars, registryVars, exploitable_commands, suspicious_flag,
                   shutdown_event, queueMapVars, qitems, unfinished, workerVars,
                   hpc, hev, updateVars, shutdownVars, log, dequeued, nextId,
                   ghostCmdVars>>

\* The body of __init__: fresh locks, empty registries, a clear flag, empty
\* queue, thread and rules maps, a clear shutdown event.  Queues and threads
\* made before stay as they are; the maps no longer name them.
InitBody(t) ==
    /\ cpc[t] = "init_body"
    /\ verified_users' = EmptyDict
    /\ known_devices' = EmptyDict
    /\ exploitable_commands' = {}
    /\ suspicious_flag' = FALSE
    /\ device_queues' = [d \in Origins |-> NoId]
    /\ queue_keys' = <<>>
    /\ device_threads' = [d \in Origins |-> NoId]
    /\ thread_keys' = <<>>
    /\ shutdown_event' = FALSE
    /\ ninit' = ninit + 1
    /\ cpc' = [cpc EXCEPT ![t] = "init_done"]
    /\ UNCHANGED <<instance, initialized>>
    /\ UNCHANGED <<sizeVars, qmade, qitems, unfinished, workerVars, hpc, hev, updateVars,
                   shutdownVars, log, dequeued, nextId, ghostCmdVars>>

\* self._initialized = True
InitDone(t) ==
    /\ cpc[t] = "init_done"
    /\ initialized' = "True"
    /\ cpc' = [cpc EXCEPT ![t] = "returned"]
    /\ UNCHANGED <<instance, ninit>>
    /\ UNCHANGED <<sizeVars, registryVars, exploitable_commands, suspicious_flag,
                   shutdown_event, queueMapVars, qitems, unfinished, workerVars,
                   hpc, hev, updateVars, shutdownVars, log, dequeued, nextId,
                   ghostCmdVars>>

(***************************************************************************)
(* update_user(user_id, max_privilege) under _users_lock and               *)
(* update_device(device_ip, device_type) under _devices_lock: one          *)
(* assignment into the shared dictionary.                                  *)
(***************************************************************************)
Privileges == {"ADMIN", "MANAGER", "USER"}
DeviceTypes == {"sensor", "gateway"}

\* self._verified_users[user_id] = max_privilege
UpdateUser(user_id, max_privilege) ==
    /\ nupdates < MaxUpdates
    /\ verified_users' = (user_id :> max_privilege) @@ verified_users
    /\ nupdates' = nupdates + 1
    /\ UNCHANGED <<constructVars, sizeVars,
                   known_devices, exploitable_commands, suspicious_flag,
                   shutdown_event, queueMapVars, qitems, unfinished, workerVars,
                   hpc, hev, upc, uarg, uold, shutdownVars, log, dequeued,
                   nextId, ghostCmdVars>>

\* self._known_devices[device_ip] = device_type
UpdateDevice(device_ip, device_type) ==
    /\ nupdates < MaxUpdates
    /\ known_devices' = (device_ip :> device_type) @@ known_devices
    /\ nupdates' = nupdates + 1
    /\ UNCHANGED <<constructVars, sizeVars,
                   verified_users, exploitable_commands, suspicious_flag,
                   shutdown_event, queueMapVars, qitems, unfinished, workerVars,
                   hpc, hev, upc, uarg, uold, shutdownVars, log, dequeued,
                   nextId, ghostCmdVars>>

(***************************************************************************)
(* update_command_list(commands), under _commands_lock; the engines read   *)
(* the set without the lock.                                               *)
(***************************************************************************)
\* with self._commands_lock: self._exploitable_commands.clear()
UpdateCommandsClear ==
    /\ upc = "idle"
    /\ nupdates < MaxUpdates
    /\ \E commands \in CommandSets : uarg' = commands
    /\ uold' = exploitable_commands
    /\ exploitable_commands' = {}
    /\ upc' = "cleared"
    /\ nupdates' = nupdates + 1
    /\ UNCHANGED <<constructVars, sizeVars,
                   registryVars, suspicious_flag, shutdown_event, queueMapVars,
                   qitems, unfinished, workerVars, hpc, hev, shutdownVars, log,
                   dequeued, nextId, ghostCmdVars>>

\* A plausible slip: update() without the effect of clear(), so that the new
\* commands are merged into the old ones.
UpdateCommandsFillMerging ==
    /\ upc = "cleared"
    /\ exploitable_commands' = uold \cup uarg
    /\ upc' = "idle"
    /\ UNCHANGED <<constructVars, sizeVars,
                   registryVars, suspicious_flag, shutdown_event, queueMapVars,
                   qitems, unfinished, workerVars, hpc, hev, uarg, uold, nupdates,
                   shutdownVars, log, dequeued, nextId, ghostCmdVars>>

\* self._exploitable_commands.update(commands); the lock is released
UpdateCommandsFill ==
    /\ upc = "cleared"
    /\ exploitable_commands' = exploitable_commands \cup uarg
    /\ upc' = "idle"
    /\ UNCHANGED <<constructVars, sizeVars,
                   registryVars, suspicious_flag, shutdown_event, queueMapVars,
                   qitems, unfinished, workerVars, hpc, hev, uarg, uold, nupdates,
                   shutdownVars, log, dequeued, nextId, ghostCmdVars>>

(***************************************************************************)
(* POST /status/clear (api_server.py): detector.suspicious_flag.clear()    *)
(***************************************************************************)
ClearSuspiciousFlag ==
    /\ suspicious_flag' = FALSE
    /\ UNCHANGED <<constructVars, sizeVars,
                   registryVars, exploitable_commands, shutdown_event,
                   queueMapVars, qitems, unfinished, workerVars, hpc, hev,
                   updateVars, shutdownVars, log, dequeued, nextId, ghostCmdVars>>

(***************************************************************************)
(* shutdown(timeout), one caller.                                          *)
(***************************************************************************)
QueuedIds ==
    {qitems[q][i].id : <<q, i>> \in
        {<<q2, i2>> \in QIds \X (1..MaxEvents + 1) : i2 <= Len(qitems[q2])}}

\* self._shutdown_event.set(); the loop over self._device_queues.items() begins
ShutdownSignal ==
    /\ spc = "idle"
    /\ shutdown_event' = TRUE
    /\ sbacklog' = QueuedIds
    /\ sidx' = 1
    /\ slen' = Len(queue_keys)
    /\ spc' = "queues"
    /\ UNCHANGED <<constructVars, sizeVars,
                   registryVars, exploitable_commands, suspicious_flag,
                   queueMapVars, qitems, unfinished, workerVars, hpc, hev,
                   updateVars, scur, sresult, sclean, log, dequeued, nextId,
                   ghostCmdVars>>

\* The next step of a dict iterator that began when the dict had `len` keys and
\* has yielded `idx - 1` of them: RuntimeError when the dict changed size,
\* exhausted after the last key, else the next item.
DictIterNext(keys, idx, len) ==
    IF Len(keys) # len THEN "error"
    ELSE IF idx > len THEN "stop"
    ELSE "item"

\* for device_ip, queue in self._device_queues.items():
ShutdownNextQueue ==
    /\ spc = "queues"
    /\ LET step == DictIterNext(queue_keys, sidx, slen) IN
          CASE step = "error" ->
                 /\ spc' = "raised"
                 /\ UNCHANGED <<sidx, slen, scur>>
            [] step = "stop" ->
                 \* for thread in self._device_threads.values():
                 /\ spc' = "threads"
                 /\ sidx' = 1
                 /\ slen' = Len(thread_keys)
                 /\ UNCHANGED scur
            [] OTHER ->
                 /\ spc' = "joinq"
                 /\ scur' = device_queues[queue_keys[sidx]]
                 /\ UNCHANGED <<sidx, slen>>
    /\ UNCHANGED <<constructVars, sizeVars,
                   registryVars, exploitable_commands, suspicious_flag,
                   shutdown_event, queueMapVars, qitems, unfinished, workerVars,
                   hpc, hev, updateVars, sresult, sclean, sbacklog, log, dequeued,
                   nextId, ghostCmdVars>>

\* queue.join() returns: Queue.join waits, without a timeout, until
\* unfinished_tasks is 0
JoinReturns(count) == count = 0

ShutdownJoinQueue ==
    /\ spc = "joinq"
    /\ JoinReturns(unfinished[scur])
    /\ sidx' = sidx + 1
    /\ spc' = "queues"
    /\ UNCHANGED <<constructVars, sizeVars,
                   registryVars, exploitable_commands, suspicious_flag,
                   shutdown_event, queueMapVars, qitems, unfinished, workerVars,
                   hpc, hev, updateVars, slen, scur, sresult, sclean, sbacklog,
                   log, dequeued, nextId, ghostCmdVars>>

ShutdownNextThread ==
    /\ spc = "threads"
    /\ LET step == DictIterNext(thread_keys, sidx, slen) IN
          CASE step = "error" ->
                 /\ spc' = "raised"
                 /\ UNCHANGED <<sidx, slen, scur>>
            [] step = "stop" ->
                 /\ spc' = "result"
                 /\ UNCHANGED <<sidx, slen, scur>>
            [] OTHER ->
                 /\ spc' = "joint"
                 /\ scur' = device_threads[thread_keys[sidx]]
                 /\ UNCHANGED <<sidx, slen>>
    /\ UNCHANGED <<constructVars, sizeVars,
                   registryVars, exploitable_commands, suspicious_flag,
                   shutdown_event, queueMapVars, qitems, unfinished, workerVars,
                   hpc, hev, updateVars, sresult, sclean, sbacklog, log, dequeued,
                   nextId, ghostCmdVars>>

\* thread.join(timeout=timeout / len(self._device_threads)) returns: the thread
\* has ended, or the timeout has passed with the thread still running
ShutdownJoinThread ==
    /\ spc = "joint"
    /\ \/ wpc[scur] = "done"
       \/ wpc[scur] # "done"
    /\ sidx' = sidx + 1
    /\ spc' = "threads"
    /\ UNCHANGED <<constructVars, sizeVars,
                   registryVars, exploitable_commands, suspicious_flag,
                   shutdown_event, queueMapVars, qitems, unfinished, workerVars,
                   hpc, hev, updateVars, slen, scur, sresult, sclean, sbacklog,
                   log, dequeued, nextId, ghostCmdVars>>

IsAlive(pcs, w) == pcs[w] \notin {"none", "done"}

\* all(not thread.is_alive() for thread in self._device_threads.values())
ShutdownResult(threads, pcs) ==
    \A d \in Origins : threads[d] # NoId => ~IsAlive(pcs, threads[d])

\* Every queue of _device_queues is empty; every thread of _device_threads has
\* ended.
AllQueuesEmpty ==
    \A d \in Origins : device_queues[d] # NoId => qitems[device_queues[d]] = <<>>
AllWorkersDead ==
    \A d \in Origins : device_threads[d] # NoId => ~IsAlive(wpc, device_threads[d])

ShutdownReturn ==
    /\ spc = "result"
    /\ sresult' = ShutdownResult(device_threads, wpc)
    /\ sclean' = (AllQueuesEmpty /\ AllWorkersDead)
    /\ spc' = "returned"
    /\ UNCHANGED <<constructVars, sizeVars,
                   registryVars, exploitable_commands, suspicious_flag,
                   shutdown_event, queueMapVars, qitems, unfinished, workerVars,
                   hpc, hev, updateVars, sidx, slen, scur, sbacklog, log,
                   dequeued, nextId, ghostCmdVars>>

(***************************************************************************)
(* get_queue_size(None) step by step: the generator inside sum() walks     *)
(* self._device_queues.values() while submitters may insert new keys.      *)
(***************************************************************************)
\* sum(queue.qsize() for queue in self._device_queues.values()) begins
GetSizeStart ==
    /\ gpc = "idle"
    /\ gidx' = 1
    /\ glen' = Len(queue_keys)
    /\ gsum' = 0
    /\ gpc' = "iter"
    /\ UNCHANGED <<constructVars,
                   registryVars, exploitable_commands, suspicious_flag,
                   shutdown_event, queueMapVars, qitems, unfinished, workerVars,
                   hpc, hev, updateVars, shutdownVars, log, dequeued, nextId,
                   ghostCmdVars>>

\* The generator's next value: RuntimeError when the dict changed size, the
\* total when it is exhausted, else one more queue.qsize() added.
GetSizeNext ==
    /\ gpc = "iter"
    /\ LET step == DictIterNext(queue_keys, gidx, glen) IN
          CASE step = "error" ->
                 /\ gpc' = "raised"
                 /\ gidx' = 0
                 /\ glen' = 0
                 /\ gsum' = 0
            [] step = "stop" ->
                 /\ gpc' = "returned"
                 /\ gidx' = 0
                 /\ glen' = 0
                 /\ UNCHANGED gsum
            [] OTHER ->
                 /\ gsum' = gsum + QueueSizeOf(queue_keys[gidx])
                 /\ gidx' = gidx + 1
                 /\ UNCHANGED <<gpc, glen>>
    /\ UNCHANGED <<constructVars,
                   registryVars, exploitable_commands, suspicious_flag,
                   shutdown_event, queueMapVars, qitems, unfinished, workerVars,
                   hpc, hev, updateVars, shutdownVars, log, dequeued, nextId,
                   ghostCmdVars>>

(***************************************************************************)
(* One engine fed a stream of events in order, nothing else running: for   *)
(* each event rules.evaluate(event) and, when it returns, the log write    *)
(* (the body of the worker loop).  The stream is kept in dequeued and the  *)
(* verdicts in log, under the address of the engine's device.              *)
(***************************************************************************)
StreamWorker == <<DevA, "t1">>
StreamDev == DevOf(StreamWorker)

\* The timestamp of the stream's latest event.
LastTime ==
    IF dequeued[StreamDev] = <<>> THEN 0
    ELSE dequeued[StreamDev][Len(dequeued[StreamDev])].timestamp

\* verdict = rules.evaluate(event); self._log_writer.write(verdict)
\* (an exception of evaluate skips the log write)
EvaluateOne(event) ==
    LET w == StreamWorker
        res == Evaluate(event, Registry, rules[w])
    IN  /\ rules' = [rules EXCEPT ![w] = res.rules]
        /\ suspicious_flag' = FlagAfter(suspicious_flag, res.flag_set)
        /\ wevent' = [wevent EXCEPT ![w] = event]
        /\ wres' = [wres EXCEPT ![w] = res.verdict]
        /\ dequeued' = [dequeued EXCEPT ![StreamDev] = Append(@, event)]
        /\ log' = [log EXCEPT ![StreamDev] =
                      IF res.raised THEN @
                      ELSE Append(@, [id |-> event.id, verdict |-> res.verdict])]
        /\ nextId' = nextId + 1
        /\ verified_users' = LookedUp(Registry, event).users
        /\ known_devices' = LookedUp(Registry, event).devices
        /\ exploitable_commands' = LookedUp(Registry, event).commands
        /\ UNCHANGED <<constructVars, sizeVars,
                       shutdown_event,
                       queueMapVars, qitems, unfinished, wpc, wqueue, hpc, hev,
                       updateVars, shutdownVars, ghostCmdVars>>

\* Events that meet each rule of the chain in one or two steps (the cases of
\* tests/test_example_usage.py).
ChainEvents(id, t) ==
    {MkEvent(id, "login_attempt", "USER", "eve", DevA, t,
             [k \in {"success"} |-> TRUE]),
     MkEvent(id, "login_attempt", "USER", "eve", "11.22.33.44", t,
             [k \in {"success"} |-> TRUE]),
     MkEvent(id, "login_attempt", "USER", "eve", "invalid-ip", t,
             [k \in {"success"} |-> TRUE]),
     MkEvent(id, "login_attempt", "USER", "eve", "192.168.99.99", t,
             [k \in {"success"} |-> TRUE]),
     MkEvent(id, "login_attempt", "USER", "unknown_user", DevA, t,
             [k \in {"success"} |-> TRUE]),
     MkEvent(id, "login_attempt", "INVALID_ROLE", "eve", DevA, t,
             [k \in {"success"} |-> TRUE]),
     MkEvent(id, "login_attempt", "USER", "admin", DevA, t,
             [k \in {"success"} |-> TRUE]),
     MkEvent(id, "power_consumption", "USER", "eve", DevA, t,
             [k \in {} |-> None]),
     MkEvent(id, "power_consumption", "USER", "eve", DevA, t,
             [k \in {"percent"} |-> Num(150)]),
     MkEvent(id, "packet_syn", "USER", "eve", DevA, t,
             [k \in {"rate"} |-> Num(150)]),
     MkEvent(id, "10000_messages_received", "USER", "eve", DevA, t,
             [k \in {} |-> None]),
     MkEvent(id, "control_command", "USER", "eve", DevA, t,
             [k \in {"command"} |-> Str("shutdown")])}

\* Failed logins of two actors (tests: six failed logins of eve).
LoginEvents(id, t) ==
    {MkEvent(id, "login_attempt", "USER", "eve", DevA, t,
             [k \in {"success"} |-> FALSE]),
     MkEvent(id, "login_attempt", "ADMIN", "admin", DevA, t,
             [k \in {"success"} |-> FALSE])}

\* Seconds between two events of the login stream.
LoginGaps == {12, 30}

LoginStep ==
    /\ nextId <= MaxLogins
    /\ \E gap \in LoginGaps :
          \E event \in LoginEvents(nextId, LastTime + gap) : EvaluateOne(event)

\* A power reading of the stream's device.
PowerEvent(id, t, ctx) ==
    MkEvent(id, "power_consumption", "USER", "eve", DevA, t, ctx)

\* Power readings as <<percent, seconds since the previous event>>: the values
\* of the tests and 0, 20 seconds apart, and one reading late enough to push
\* earlier ones out of the 5-minute window.
PowerSamples == {<<0, 20>>, <<30, 20>>, <<40, 20>>, <<80, 20>>, <<30, 290>>}

PowerStep ==
    /\ nextId <= MaxPower
    /\ \E s \in PowerSamples :
          EvaluateOne(PowerEvent(nextId, LastTime + s[2],
                                 [k \in {"percent"} |-> Num(s[1])]))

\* Contexts of power readings: readings in range, out of range on either
\* side, not a number, and no percent at all.
PowerContexts ==
    {[k \in {"percent"} |-> v] :
        v \in {Num(30), Num(80), Num(-10), Num(150), Str("unknown")}}
    \cup {[k \in {} |-> None]}

PowerDataStep ==
    /\ nextId <= MaxPower
    /\ \E ctx \in PowerContexts :
          EvaluateOne(PowerEvent(nextId, LastTime + 20, ctx))

\* Resource samples as <<usage in hundredths, seconds since the previous
\* event>>: the test's 0.85 once per second, and three departures from it: a
\* sample just below the threshold, a sample at the threshold, and a sample
\* that comes a second late.
ResourceSamples == {<<85, 1>>, <<79, 1>>, <<80, 1>>, <<85, 2>>}

\* The stream so far is the test's: 0.85 once per second.
StreamRegular ==
    \A i \in 1..Len(dequeued[StreamDev]) :
        /\ dequeued[StreamDev][i].context["usage"] = Num(85)
        /\ dequeued[StreamDev][i].timestamp = i

\* A stream departs from the test's at most once.
ResourceStep ==
    /\ nextId <= MaxSamples
    /\ \E s \in ResourceSamples :
          /\ s = <<85, 1>> \/ StreamRegular
          /\ EvaluateOne(MkEvent(nextId, "system_resource_usage", "USER", "eve",
                                 DevA, LastTime + s[2],
                                 [k \in {"usage"} |-> Num(s[1])]))

\* Bulk-message reports of two actors and a successful login between them, as
\* <<event name, actor, role, seconds since the previous event>>: the window
\* is 100 seconds, so the gaps fall inside it, on its edge and beyond it.
FloodSamples ==
    {<<"10000_messages_received", "eve", "USER", 50>>,
     <<"10000_messages_received", "eve", "USER", 100>>,
     <<"10000_messages_received", "eve", "USER", 101>>,
     <<"10000_messages_received", "admin", "ADMIN", 50>>,
     <<"login_attempt", "eve", "USER", 50>>}

FloodStep ==
    /\ nextId <= MaxFloods
    /\ \E s \in FloodSamples :
          EvaluateOne(MkEvent(nextId, s[1], s[3], s[2], DevA, LastTime + s[4],
                              IF s[1] = "login_attempt"
                              THEN [k \in {"success"} |-> TRUE]
                              ELSE [k \in {} |-> None]))

\* Failed logins and monitored commands from every kind of origin (a
\* registered device, a private address that is not registered, a public
\* address, a string that is no address), of a registered USER, a registered
\* ADMIN and an actor that is not registered, under a role of the actor's
\* choosing.
ValidateSources == {DevA, "192.168.99.99", "11.22.33.44", "invalid-ip"}
ValidateActors == {"eve", "admin", "unknown_user"}
ValidateRoles == {"USER", "MANAGER", "INVALID_ROLE"}
ValidateKinds ==
    {<<"login_attempt", [k \in {"success"} |-> FALSE]>>,
     <<"control_command", [k \in {"command"} |-> Str("shutdown")]>>}

ValidateEvents(id, t) ==
    {MkEvent(id, kind[1], role, user, src, t, kind[2]) :
        kind \in ValidateKinds, role \in ValidateRoles,
        user \in ValidateActors, src \in ValidateSources}

ValidateStep ==
    /\ nextId <= MaxValidate
    /\ \E event \in ValidateEvents(nextId, LastTime + 5) : EvaluateOne(event)

\* Contexts of SYN reports: the rate absent, at the limit, just above it and
\* the tests' 150, with multi_user absent, true or false.
SynContexts ==
    {[k \in {} |-> None]}
    \cup {[k \in {"rate"} |-> Num(n)] : n \in {100, 101, 150}}
    \cup {[k \in {"multi_user"} |-> b] : b \in BOOLEAN}
    \cup {[k \in {"rate", "multi_user"} |->
              IF k = "rate" THEN Num(n) ELSE b] :
           n \in {100, 101, 150}, b \in BOOLEAN}

SynStep ==
    /\ nextId <= MaxSyn
    /\ \E ctx \in SynContexts, actor \in {<<"eve", "USER">>, <<"admin", "ADMIN">>} :
          EvaluateOne(MkEvent(nextId, "packet_syn", actor[2], actor[1], DevA,
                              LastTime + 10, ctx))

\* Control commands: a monitored command sent by a USER, by an ADMIN and by
\* the USER claiming the ADMIN role, and a command that is not monitored.
CommandEvents(id, t) ==
    {MkEvent(id, "control_command", "USER", "eve", DevA, t,
             [k \in {"command"} |-> Str("shutdown")]),
     MkEvent(id, "control_command", "ADMIN", "admin", DevA, t,
             [k \in {"command"} |-> Str("shutdown")]),
     MkEvent(id, "control_command", "ADMIN", "eve", DevA, t,
             [k \in {"command"} |-> Str("shutdown")]),
     MkEvent(id, "control_command", "USER", "eve", DevA, t,
             [k \in {"command"} |-> Str("light_on")])}

\* Seconds between two events of the command stream.
CommandGaps == {10, 16}

CommandStep ==
    /\ nextId <= MaxCommands
    /\ \E gap \in CommandGaps :
          \E event \in CommandEvents(nextId, LastTime + gap) : EvaluateOne(event)

ChainStep ==
    /\ nextId <= MaxChain
    /\ \E event \in ChainEvents(nextId, LastTime + 5) : EvaluateOne(event)

\* Events of every kind that reads a context field, from a registered actor
\* on a registered device, with the field absent, not a number, or a number.
ContextFields ==
    {<<"power_consumption", "percent">>, <<"packet_syn", "rate">>,
     <<"system_resource_usage", "usage">>, <<"control_command", "command">>}
ContextValues == {Num(50), Num(150), Str("unknown")}

ContextEvents(id, t) ==
    UNION {{MkEvent(id, f[1], "USER", "eve", DevA, t, ctx) :
               ctx \in {[k \in {} |-> None]}
                         \cup {[k \in {f[2]} |-> v] : v \in ContextValues}} :
           f \in ContextFields}

ContextStep ==
    /\ nextId <= MaxContext
    /\ \E event \in ContextEvents(nextId, LastTime + 5) : EvaluateOne(event)

\* Events sent by parallel submitter threads (send_parallel): each carries the
\* offset its caller chose and they reach the queue in any order, so the
\* engine may see a timestamp older than the one before it.
OrderOffsets == {10, 50, 100, 170}
OrderKinds ==
    {<<"login_attempt", [k \in {"success"} |-> FALSE]>>,
     <<"10000_messages_received", [k \in {} |-> None]>>,
     <<"system_resource_usage", [k \in {"usage"} |-> Num(85)]>>}

OrderEvents(id) ==
    {MkEvent(id, kind[1], "USER", "eve", DevA, t, kind[2]) :
        kind \in OrderKinds, t \in OrderOffsets}

OrderStep ==
    /\ nextId <= MaxOrder
    /\ \E event \in OrderEvents(nextId) : EvaluateOne(event)

\* Logins of one actor on one device: failed, failed under a role that does
\* not exist (stopped by validation before the brute-force rule), and
\* successful.
BruteEvents(id, t) ==
    {MkEvent(id, "login_attempt", "USER", "eve", DevA, t,
             [k \in {"success"} |-> FALSE]),
     MkEvent(id, "login_attempt", "INVALID_ROLE", "eve", DevA, t,
             [k \in {"success"} |-> FALSE]),
     MkEvent(id, "login_attempt", "USER", "eve", DevA, t,
             [k \in {"success"} |-> TRUE])}

BruteStep ==
    /\ nextId <= MaxBrute
    /\ \E gap \in LoginGaps :
          \E event \in BruteEvents(nextId, LastTime + gap) : EvaluateOne(event)

\* Monitored commands of the actor eve under each role it may claim.
PrivilegeEvents(id, t) ==
    {MkEvent(id, "control_command", role, "eve", DevA, t,
             [k \in {"command"} |-> Str("shutdown")]) : role \in Privileges}

PrivilegeStep ==
    /\ nextId <= MaxPrivilege
    /\ \E gap \in CommandGaps :
          \E event \in PrivilegeEvents(nextId, LastTime + gap) :
             EvaluateOne(event)

\* Events whose verdict depends on one of the three tables: a login of eve as
\* USER (her registered privilege), a login from an address that is not
\* registered yet (the device table), and the commands reboot and shutdown
\* (the monitored set).
ReachEvents(id, t) ==
    {MkEvent(id, "login_attempt", "USER", "eve", DevA, t,
             [k \in {"success"} |-> TRUE]),
     MkEvent(id, "login_attempt", "USER", "eve", "192.168.99.99", t,
             [k \in {"success"} |-> TRUE]),
     MkEvent(id, "control_command", "USER", "eve", DevA, t,
             [k \in {"command"} |-> Str("reboot")]),
     MkEvent(id, "control_command", "USER", "eve", DevA, t,
             [k \in {"command"} |-> Str("shutdown")])}

ReachStep ==
    /\ nextId <= MaxReach
    /\ \E event \in ReachEvents(nextId, LastTime + 5) : EvaluateOne(event)

(***************************************************************************)
(* Specifications.  Spec is the whole engine with one submitter thread;    *)
(* SpecRace has two submitter threads racing through handle_event;         *)
(* the others are Spec restricted to the operations named.                 *)
(***************************************************************************)
SubmitSteps(ts) ==
    \/ \E t \in ts : HandleEventCall(t)
    \/ \E t \in ts : EnsureCreateQueue(t)
    \/ \E t \in ts : EnsureStartWorker(t)
    \/ \E t \in ts : EnsureRegister(t)
    \/ \E t \in ts : HandleEventPut(t)

WorkerSteps ==
    \/ \E w \in WIds : WorkerInit(w)
    \/ \E w \in WIds : WorkerCheck(w)
    \/ \E w \in WIds : WorkerGet(w)
    \/ \E w \in WIds : WorkerEvaluate(w)
    \/ \E w \in WIds : WorkerLog(w)
    \/ \E w \in WIds : WorkerExcept(w)

UpdateSteps ==
    \/ UpdateCommandsClear
    \/ UpdateCommandsFill

ShutdownSteps ==
    \/ ShutdownSignal
    \/ ShutdownNextQueue
    \/ ShutdownJoinQueue
    \/ ShutdownNextThread
    \/ ShutdownJoinThread
    \/ ShutdownReturn

OneSubmitter == {"t1"}

Next ==
    \/ SubmitSteps(OneSubmitter)
    \/ WorkerSteps
    \/ UpdateSteps
    \/ ClearSuspiciousFlag
    \/ ShutdownSteps

Spec == Init /\ [][Next]_vars

RaceNext == SubmitSteps(Threads) \/ WorkerSteps
SpecRace == Init /\ [][RaceNext]_vars

ShutdownNext == SubmitSteps(OneSubmitter) \/ WorkerSteps \/ ShutdownSteps
SpecShutdown == Init /\ [][ShutdownNext]_vars

ConfigNext == SubmitSteps(OneSubmitter) \/ WorkerSteps \/ UpdateSteps
SpecConfig == Init /\ [][ConfigNext]_vars

FlagNext == SubmitSteps(OneSubmitter) \/ WorkerSteps \/ ClearSuspiciousFlag
SpecFlag == Init /\ [][FlagNext]_vars

\* Two racing submitters, the workers, and a caller of get_queue_size.
QueueSizeNext ==
    \/ RaceNext
    \/ \E device_ip \in Devices \cup {"192.168.99.99", None} :
          GetQueueSizeCall(device_ip)
SpecQueueSize == Init /\ [][QueueSizeNext]_vars

\* The steps of one submitter thread and of one worker thread.
SubmitStep(t) ==
    \/ HandleEventCall(t)
    \/ EnsureCreateQueue(t)
    \/ EnsureStartWorker(t)
    \/ EnsureRegister(t)
    \/ HandleEventPut(t)

WorkerStep(w) ==
    \/ WorkerInit(w)
    \/ WorkerCheck(w)
    \/ WorkerGet(w)
    \/ WorkerEvaluate(w)
    \/ WorkerLog(w)
    \/ WorkerExcept(w)

\* One submitter and the workers, every started worker thread being scheduled
\* again and again (the interpreter switches threads every few milliseconds).
FaultNext == SubmitSteps(OneSubmitter) \/ WorkerSteps
SpecFault ==
    Init /\ [][FaultNext]_vars
         /\ \A w \in Devices \X OneSubmitter : WF_vars(WorkerStep(w))

\* A submitter that keeps running, and workers that may never get to run.
SpecSubmit ==
    Init /\ [][FaultNext]_vars /\ \A t \in OneSubmitter : WF_vars(SubmitStep(t))

\* The same with two submitters racing through handle_event.
SpecSubmitRace ==
    Init /\ [][RaceNext]_vars /\ \A t \in Threads : WF_vars(SubmitStep(t))

\* One engine fed a stream of failed logins.
SpecLogin == Init /\ [][LoginStep]_vars

\* One engine fed a stream of valid power readings.
SpecPower == Init /\ [][PowerStep]_vars

\* One engine fed a stream of valid and invalid power readings.
SpecPowerData == Init /\ [][PowerDataStep]_vars

\* One engine fed a stream of resource samples.
SpecResource == Init /\ [][ResourceStep]_vars

\* One engine fed a stream of bulk-message reports.
SpecFlood == Init /\ [][FloodStep]_vars

\* One engine fed events that pass or fail each validation.
SpecValidate == Init /\ [][ValidateStep]_vars

\* One engine fed a stream of SYN reports.
SpecSyn == Init /\ [][SynStep]_vars

\* One engine fed a stream of control commands.
SpecCommand == Init /\ [][CommandStep]_vars

\* One engine fed events that meet every rule of the chain.
SpecChain == Init /\ [][ChainStep]_vars

\* One engine fed events whose context field is absent or malformed.
SpecContext == Init /\ [][ContextStep]_vars

\* One engine fed events whose timestamps come in any order.
SpecOrder == Init /\ [][OrderStep]_vars

\* One engine fed a stream of logins of one actor.
SpecBrute == Init /\ [][BruteStep]_vars

\* One engine fed monitored commands of one actor whose registered maximum
\* privilege is set by update_user.
PrivilegeNext ==
    \/ PrivilegeStep
    \/ \E max_privilege \in Privileges : UpdateUser("eve", max_privilege)
SpecPrivilege == Init /\ [][PrivilegeNext]_vars

\* The steps of one caller of AttackDetector().
ConstructStep(t) ==
    \/ NewCheck(t)
    \/ NewLock(t)
    \/ NewInner(t)
    \/ NewMake(t)
    \/ NewFlag(t)
    \/ InitCheck(t)
    \/ InitBody(t)
    \/ InitDone(t)

\* Threads that each call AttackDetector(); a caller whose call has returned
\* configures the detector it got.
ConstructNext ==
    \/ \E t \in Threads : ConstructStep(t)
    \/ /\ \E t \in Threads : cpc[t] = "returned"
       /\ \E user_id \in Users, max_privilege \in Privileges :
             UpdateUser(user_id, max_privilege)
    \/ /\ \E t \in Threads : cpc[t] = "returned"
       /\ \E device_ip \in Devices, device_type \in DeviceTypes :
             UpdateDevice(device_ip, device_type)
SpecConstruct == InitClass /\ [][ConstructNext]_vars

\* One engine evaluating events while the three tables are updated.
ReachNext ==
    \/ ReachStep
    \/ \E user_id \in Users, max_privilege \in Privileges :
          UpdateUser(user_id, max_privilege)
    \/ \E device_ip \in PrivateAddrs, device_type \in DeviceTypes :
          UpdateDevice(device_ip, device_type)
    \/ UpdateCommandsClear
    \/ UpdateCommandsFill
SpecReach == Init /\ [][ReachNext]_vars

\* Two submitters sending events from every kind of origin address, and the
\* workers.
OriginNext ==
    \/ \E t \in Threads : HandleEventFrom(t, Origins)
    \/ \E t \in Threads : EnsureCreateQueue(t)
    \/ \E t \in Threads : EnsureStartWorker(t)
    \/ \E t \in Threads : EnsureRegister(t)
    \/ \E t \in Threads : HandleEventPut(t)
    \/ WorkerSteps
SpecOrigin == Init /\ [][OriginNext]_vars

\* The control thread calls get_queue_size(None) once and then, unless that
\* raised, shutdown(): the two calls are sequential in that one thread.
ControlSize == spc = "idle" /\ GetSizeStart
ControlShutdown == gpc \in {"idle", "returned"} /\ ShutdownSignal

\* A submitter, the workers, and the control thread.
IterateNext ==
    \/ SubmitSteps(OneSubmitter)
    \/ WorkerSteps
    \/ ControlSize
    \/ GetSizeNext
    \/ ControlShutdown
    \/ ShutdownNextQueue
    \/ ShutdownJoinQueue
    \/ ShutdownNextThread
    \/ ShutdownJoinThread
    \/ ShutdownReturn
SpecIterate == Init /\ [][IterateNext]_vars

(***************************************************************************)
(* Properties.                                                             *)
(***************************************************************************)
WorkersOf(d) == {w \in WIds : DevOf(w) = d /\ wpc[w] # "none"}
QueuesOf(d) == {q \in qmade : DevOf(q) = d}

\* C1: for every device address, under every interleaving of concurrent
\* handle_event calls, at most one worker thread (with its AttackRules
\* instance) and at most one queue are ever created.
C1_OneWorkerPerDevice ==
    \A d \in Devices :
        /\ Cardinality(WorkersOf(d)) <= 1
        /\ Cardinality(QueuesOf(d)) <= 1

\* C2: at most one evaluate call is in progress for a device: no two workers
\* of one device hold a dequeued event under evaluation at the same time.
C2_SequentialPerDevice ==
    \A d \in Devices :
        Cardinality({w \in WIds : DevOf(w) = d /\ wpc[w] = "eval"}) <= 1

\* The system is at rest: no handle_event call is in progress, every started
\* worker is waiting in its loop and the queue it reads is empty.
Quiescent ==
    /\ \A t \in Threads : hpc[t] = "idle"
    /\ \A w \in WIds : wpc[w] \in {"none", "loop", "get"}
    /\ \A w \in WIds : wpc[w] # "none" => qitems[wqueue[w]] = <<>>

SeqSet(seq) == {seq[i] : i \in 1..Len(seq)}

\* The events handle_event has accepted for device d: dequeued, or still queued.
AcceptedFor(d) ==
    SeqSet(dequeued[d]) \cup UNION {SeqSet(qitems[q]) : q \in QueuesOf(d)}

FailedLoginsOf(d, user) ==
    {e \in AcceptedFor(d) :
        e.event_name = "login_attempt" /\ LoginFailed(e) /\ e.user_id = user}

\* C3: a device's window contents are decided by the events submitted for that
\* device alone, however the submissions interleave: once the system is at
\* rest, the failed-login window of the device's engine counts every failed
\* login submitted for the device (all within 60 seconds here), and the
\* device has produced BRUTE_FORCE_LOGIN when they exceed the limit.
C3_OwnWindowCounts ==
    Quiescent =>
        \A d \in Devices : \A w \in WorkersOf(d) : \A u \in Users :
            /\ Len(rules[w].failed_logins[u]) = Cardinality(FailedLoginsOf(d, u))
            /\ Cardinality(FailedLoginsOf(d, u)) > FAILED_LOGIN_LIMIT =>
                  \E i \in 1..Len(log[d]) :
                      log[d][i].verdict.rule_hit = "BRUTE_FORCE_LOGIN"

\* Device isolation proper: every entry of an engine's failed-login window is
\* the timestamp of an event submitted for that engine's own device.
WindowsHoldOwnEvents ==
    \A w \in WIds : \A u \in Users :
        \A i \in 1..Len(rules[w].failed_logins[u]) :
            \E e \in FailedLoginsOf(DevOf(w), u) :
                e.timestamp = ItemTime(rules[w].failed_logins[u][i])

\* A queue whose events can never be dequeued: it holds events, the queue map
\* no longer points to it, and no worker reads it.
Lost(q) ==
    /\ qitems[q] # <<>>
    /\ device_queues[DevOf(q)] # q
    /\ \A w \in WIds : wqueue[w] # q

\* C4: no event accepted by handle_event (no shutdown signalled) is lost: it is
\* never left in a queue that no worker will ever read.
C4_NoEventLost == \A q \in qmade : ~Lost(q)

IsPrefix(a, b) == Len(a) <= Len(b) /\ \A i \in 1..Len(a) : a[i] = b[i]
InFlight(d) ==
    {w \in WIds : DevOf(w) = d /\ wpc[w] \in {"eval", "log", "except"}}
LoggedIds(d) == [i \in 1..Len(log[d]) |-> log[d][i].id]
DequeuedIds(d) == [i \in 1..Len(dequeued[d]) |-> dequeued[d][i].id]

\* C5: every dequeued event yields exactly one verdict handed to the log
\* writer, and a device's verdicts are delivered in the order its events were
\* dequeued: the verdicts logged for a device are those of its dequeued
\* events, in order, all but the events still being handled.
C5_OneVerdictInOrder ==
    \A d \in Devices :
        /\ IsPrefix(LoggedIds(d), DequeuedIds(d))
        /\ Len(dequeued[d]) = Len(log[d]) + Cardinality(InFlight(d))

\* C6: shutdown drains the backlog: a worker terminates only when no event
\* that was queued when shutdown was called is left in its queue.
C6_ShutdownDrains ==
    \A w \in WIds :
        wpc[w] = "done" =>
            \A i \in 1..Len(qitems[wqueue[w]]) :
                qitems[wqueue[w]][i].id \notin sbacklog

\* C7: shutdown returns true only if, at the moment it returns, every device
\* queue is empty and every worker thread has terminated.
C7_TrueOnlyIfClean == (spc = "returned" /\ sresult) => sclean

\* shutdown waits in queue.join() for a count that can no longer fall: the
\* queue's worker has ended, and whatever the queue still holds was there when
\* shutdown was called.
ShutdownStuck ==
    /\ spc = "joinq"
    /\ unfinished[scur] > 0
    /\ \E w \in WIds : wqueue[w] = scur
    /\ \A w \in WIds : wqueue[w] = scur => wpc[w] = "done"
    /\ \A i \in 1..Len(qitems[scur]) : qitems[scur][i].id \in sbacklog

\* C8: a shutdown call always returns, whatever backlog the workers have: it
\* never blocks forever.
C8_ShutdownNeverStuck == ~ShutdownStuck

\* C9: every membership test of an evaluation sees the monitored-command set
\* as it was before a concurrent update_command_list or as it is after it,
\* never an intermediate state.
C9_AtomicRegistryReads == cmd_seen \in cmd_valid

\* C10: no step of a worker changes the suspicious flag from set to clear; a
\* step that clears it is a call of the explicit clear operation.
C10_FlagMonotone ==
    [][(suspicious_flag /\ ~suspicious_flag') => ClearSuspiciousFlag]_vars

\* C10 witness: the flag is set and, after the suspicious verdict of a device,
\* a later event of that device was evaluated as not suspicious.
C10_Witness ==
    /\ suspicious_flag
    /\ \E d \in Devices : \E i, j \in 1..Len(log[d]) :
          /\ i < j
          /\ log[d][i].verdict.suspicious
          /\ ~log[d][j].verdict.suspicious

\* The step evaluates one more event of the stream, and evaluate returns.
StreamReturned == Len(log'[StreamDev]) = Len(log[StreamDev]) + 1

\* C11: an evaluation that returns a suspicious verdict has set the global
\* flag, and an evaluation that returns a non-suspicious verdict (neutral or
\* informational) leaves the flag as it was.
C11_FlagTracksVerdicts ==
    [][StreamReturned =>
          /\ wres'[StreamWorker].suspicious => suspicious_flag'
          /\ ~wres'[StreamWorker].suspicious => suspicious_flag' = suspicious_flag
      ]_vars

\* C11 witness: informational verdicts were returned with the flag clear, and
\* then a suspicious one has set it.
C11_Witness ==
    /\ suspicious_flag
    /\ Len(log[StreamDev]) = 3
    /\ log[StreamDev][1].verdict.rule_hit = "UNKNOWN_DEVICE"
    /\ log[StreamDev][2].verdict.rule_hit = "PRIVILEGE_ESCALATION"
    /\ log[StreamDev][3].verdict.rule_hit = "SYN_FLOOD"

\* Some event dequeued for device d produced no verdict: its evaluation raised
\* and the worker's handler has run.
FaultSeen(d) == Len(dequeued[d]) > Len(log[d]) + Cardinality(InFlight(d))

\* After such a failure, device d has events waiting in its queue or being
\* handled by its worker.
PendingAfterFault(d) ==
    /\ FaultSeen(d)
    /\ \/ InFlight(d) # {}
       \/ device_queues[d] # NoId /\ qitems[device_queues[d]] # <<>>

AnyPendingAfterFault == \E d \in Devices : PendingAfterFault(d)

\* C12: after the evaluation of an event of a device has raised, the device's
\* worker is still alive, and the events enqueued for the device after it are
\* eventually all dequeued and evaluated.
C12_FaultIsolation ==
    /\ [](\A d \in Devices :
             FaultSeen(d) => \A w \in WorkersOf(d) : wpc[w] # "done")
    /\ AnyPendingAfterFault ~> ~AnyPendingAfterFault

\* C12 witness: the first event of a device raised, and the event enqueued
\* after it has been evaluated and its verdict logged.
C12_Witness ==
    \E d \in Devices :
        /\ Len(dequeued[d]) = 2
        /\ Len(log[d]) = 1
        /\ log[d][1].id = dequeued[d][2].id
        /\ InFlight(d) = {}

\* C13: a call of handle_event always returns, whatever the workers do (they
\* may be busy, have a backlog, or never finish an evaluation).
C13_HandleEventReturns ==
    \A t \in Threads : (hpc[t] # "idle") ~> (hpc[t] = "idle")

\* C13 witness: handle_event has returned twice while the worker of the
\* device has not run yet and both events wait in its queue.
C13_Witness ==
    \E t \in Threads : \E q \in qmade :
        /\ hpc[t] = "idle"
        /\ Len(qitems[q]) = 2
        /\ \E w \in WIds : DevOf(w) = DevOf(q) /\ wpc[w] = "start"

\* The step evaluates one more event of the stream (evaluate returns or raises).
StreamStepped == Len(dequeued'[StreamDev]) = Len(dequeued[StreamDev]) + 1

\* The stream with the event of this step, and that event.
StreamAfter == dequeued'[StreamDev]
StreamEvent == StreamAfter[Len(StreamAfter)]

\* The failed logins of the stream's latest actor that are at most 60 seconds
\* older than the latest event (itself included).
RecentFailedLogins(stream) ==
    LET e == stream[Len(stream)] IN
    {i \in 1..Len(stream) :
        /\ stream[i].event_name = "login_attempt"
        /\ stream[i].context["success"] = FALSE
        /\ stream[i].user_id = e.user_id
        /\ e.timestamp - stream[i].timestamp <= 60}

RecentCommands(stream) ==
    LET e == stream[Len(stream)] IN
    {i \in 1..Len(stream) :
        /\ stream[i].event_name = "control_command"
        /\ stream[i].context["command"][2] \in exploitable_commands
        /\ stream[i].user_id = e.user_id
        /\ e.timestamp - stream[i].timestamp <= 30}

\* C15: a monitored control command sent with the USER role that is the 4th
\* or later of its actor within 30 seconds yields suspicious
\* COMMAND_INJECTION, an earlier one does not, and a command sent with the
\* ADMIN role never does, whatever the number of commands.
C15_CommandAbuse ==
    [][(StreamStepped /\ Len(StreamAfter) \in RecentCommands(StreamAfter)) =>
          /\ StreamReturned
          /\ (StreamEvent.user_role = "USER"
                /\ Cardinality(RecentCommands(StreamAfter)) >= 4) =>
                /\ wres'[StreamWorker].suspicious
                /\ wres'[StreamWorker].rule_hit = "COMMAND_INJECTION"
          /\ (StreamEvent.user_role = "ADMIN"
                \/ Cardinality(RecentCommands(StreamAfter)) <= 3) =>
                wres'[StreamWorker].rule_hit # "COMMAND_INJECTION"
      ]_vars

\* C15 witness: four monitored commands of the USER eve 10 seconds apart gave
\* COMMAND_INJECTION at the 4th, and a 5th one sent with the ADMIN role did not.
C15_Witness ==
    /\ Len(log[StreamDev]) = 5
    /\ \A i \in 1..5 :
          /\ dequeued[StreamDev][i].user_id = "eve"
          /\ dequeued[StreamDev][i].context["command"] = Str("shutdown")
          /\ dequeued[StreamDev][i].timestamp = 10 * i
    /\ \A i \in 1..4 : dequeued[StreamDev][i].user_role = "USER"
    /\ dequeued[StreamDev][5].user_role = "ADMIN"
    /\ log[StreamDev][3].verdict.rule_hit = None
    /\ log[StreamDev][4].verdict.rule_hit = "COMMAND_INJECTION"
    /\ log[StreamDev][5].verdict.rule_hit = None

\* The device's power window as the event of this step finds it: the stored
\* readings less those more than 5 minutes older than the event.
PriorReadings ==
    CleanSlidingWindow(rules[StreamWorker].power_readings[StreamDev],
                       StreamEvent.timestamp, POWER_ANALYSIS_WINDOW)

\* The event of this step is a power reading with a numeric percent in [0,100].
ValidPowerStep ==
    /\ StreamStepped
    /\ StreamEvent.event_name = "power_consumption"
    /\ PercentNumeric(StreamEvent)
    /\ InRange(StreamEvent.context["percent"][2])

\* current > 1.5 * mean(prior), in integers
Spike(current, prior) == 2 * current * Len(prior) > 3 * SumValues(prior)

\* The evaluation of this step returned suspicious POWER_ANOMALY.
YieldsPowerAnomaly ==
    /\ StreamReturned
    /\ wres'[StreamWorker].suspicious
    /\ wres'[StreamWorker].rule_hit = "POWER_ANOMALY"

\* C16: a valid in-range power reading yields suspicious POWER_ANOMALY if and
\* only if the window holds at least 5 prior readings and the current value is
\* strictly greater than 1.5 times their mean.
C16_PowerAnomaly ==
    [][ValidPowerStep =>
          (YieldsPowerAnomaly <=>
              /\ Len(PriorReadings) >= 5
              /\ Spike(StreamEvent.context["percent"][2], PriorReadings))
      ]_vars

\* C17: every valid in-range power reading is appended to the device's power
\* window by its evaluation, whatever the outcome.
C17_ReadingAppended ==
    [][ValidPowerStep =>
          rules'[StreamWorker].power_readings[StreamDev] =
              Append(PriorReadings,
                     Sample(StreamEvent.context["percent"][2],
                            StreamEvent.timestamp))
      ]_vars

\* The event of this step is a power reading whose percent is missing or not
\* a number, or a number outside [0,100].
InvalidPowerData ==
    /\ StreamStepped
    /\ StreamEvent.event_name = "power_consumption"
    /\ (~HasKey(StreamEvent.context, "percent")
          \/ StreamEvent.context["percent"][1] = "str")
OutOfRangePower ==
    /\ StreamStepped
    /\ StreamEvent.event_name = "power_consumption"
    /\ HasKey(StreamEvent.context, "percent")
    /\ StreamEvent.context["percent"][1] = "num"
    /\ (StreamEvent.context["percent"][2] < 0
          \/ StreamEvent.context["percent"][2] > 100)

\* C18: a power reading whose percent is missing or non-numeric yields
\* non-suspicious INVALID_POWER_DATA, one whose percent is a number outside
\* [0,100] yields non-suspicious POWER_OUT_OF_RANGE, and both leave the power
\* window and the global flag as they were.
C18_InvalidPowerData ==
    [][(InvalidPowerData \/ OutOfRangePower) =>
          /\ StreamReturned
          /\ ~wres'[StreamWorker].suspicious
          /\ InvalidPowerData => wres'[StreamWorker].rule_hit = "INVALID_POWER_DATA"
          /\ OutOfRangePower => wres'[StreamWorker].rule_hit = "POWER_OUT_OF_RANGE"
          /\ rules'[StreamWorker].power_readings =
                rules[StreamWorker].power_readings
          /\ suspicious_flag' = suspicious_flag
      ]_vars

\* C18 witness: after two readings of 30, readings of -10, of 150, of a
\* non-numeric percent and without percent were classified and left the
\* window at the two readings and the flag clear.
C18_Witness ==
    /\ Len(log[StreamDev]) = 6
    /\ dequeued[StreamDev][3].context = [k \in {"percent"} |-> Num(-10)]
    /\ dequeued[StreamDev][4].context = [k \in {"percent"} |-> Num(150)]
    /\ dequeued[StreamDev][5].context = [k \in {"percent"} |-> Str("unknown")]
    /\ ~HasKey(dequeued[StreamDev][6].context, "percent")
    /\ log[StreamDev][3].verdict.rule_hit = "POWER_OUT_OF_RANGE"
    /\ log[StreamDev][4].verdict.rule_hit = "POWER_OUT_OF_RANGE"
    /\ log[StreamDev][5].verdict.rule_hit = "INVALID_POWER_DATA"
    /\ log[StreamDev][6].verdict.rule_hit = "INVALID_POWER_DATA"
    /\ Len(rules[StreamWorker].power_readings[StreamDev]) = 2
    /\ ~suspicious_flag

\* The usage, in hundredths, of the i-th event of the stream.
UsageAt(stream, i) == stream[i].context["usage"][2]

\* The samples of the stream that are at most 90 seconds older than its j-th
\* event, that event included: the 90-second window after the j-th event was
\* appended and the expired samples evicted.
WindowAt(stream, j) ==
    {i \in 1..j : stream[j].timestamp - stream[i].timestamp <= 90}

\* C19: a system_resource_usage event yields suspicious RESOURCE_EXHAUSTION if
\* and only if the 90-second window, after the sample is appended and the
\* expired ones evicted, holds at least 90 samples and each of them is >= 0.80.
C19_ResourceExhaustion ==
    [][StreamStepped =>
          /\ StreamReturned
          /\ (/\ wres'[StreamWorker].suspicious
              /\ wres'[StreamWorker].rule_hit = "RESOURCE_EXHAUSTION")
             <=>
             (/\ Cardinality(WindowAt(StreamAfter, Len(StreamAfter))) >= 90
              /\ \A i \in WindowAt(StreamAfter, Len(StreamAfter)) :
                    UsageAt(StreamAfter, i) >= 80)
      ]_vars

\* C19 witness: 95 samples at 0.85, one per second; the 89th did not trigger,
\* the 90th to the 95th did, and the flag is set.
C19_Witness ==
    /\ Len(log[StreamDev]) = 95
    /\ StreamRegular
    /\ log[StreamDev][89].verdict.rule_hit = None
    /\ \A j \in 90..95 :
          /\ log[StreamDev][j].verdict.suspicious
          /\ log[StreamDev][j].verdict.rule_hit = "RESOURCE_EXHAUSTION"
    /\ suspicious_flag

\* The events of the stream that got RESOURCE_EXHAUSTION (no evaluation of a
\* resource stream raises, so the j-th log entry is the j-th event's).
Exhausted ==
    {j \in 1..Len(log[StreamDev]) :
        log[StreamDev][j].verdict.rule_hit = "RESOURCE_EXHAUSTION"}

\* The samples of the stream below 0.80.
LowSamples ==
    {i \in 1..Len(dequeued[StreamDev]) : UsageAt(dequeued[StreamDev], i) < 80}

\* The stream is one sample per second.
OnePerSecond ==
    \A i \in 1..Len(dequeued[StreamDev]) : dequeued[StreamDev][i].timestamp = i

\* C20 as stated: a stream in which some sample is below 0.80 has no event
\* with RESOURCE_EXHAUSTION.
C20_NoExhaustionWithLowSample == LowSamples # {} => Exhausted = {}

\* C20 amended: no event whose 90-second window holds a sample below 0.80 gets
\* RESOURCE_EXHAUSTION; in particular a one-per-second stream of at most 95
\* samples with a low sample at one of the positions 5 to 90 has no event with
\* RESOURCE_EXHAUSTION.
C20_NoExhaustionNearLowSample ==
    /\ \A j \in Exhausted :
          WindowAt(dequeued[StreamDev], j) \cap LowSamples = {}
    /\ (/\ OnePerSecond
        /\ Len(dequeued[StreamDev]) <= 95
        /\ LowSamples \cap 5..90 # {}) => Exhausted = {}

\* C20 witness: a one-per-second stream of 95 samples with its one low sample
\* at position 5 and no RESOURCE_EXHAUSTION on any of its events.
C20_Witness ==
    /\ Len(log[StreamDev]) = 95
    /\ OnePerSecond
    /\ LowSamples = {5}
    /\ Exhausted = {}

\* The bulk-message events of the stream, of any actor, that are at most 100
\* seconds older than the latest event (itself included).
RecentFloods(stream) ==
    {i \in 1..Len(stream) :
        /\ stream[i].event_name = "10000_messages_received"
        /\ stream[Len(stream)].timestamp - stream[i].timestamp <= 100}

C22_NonLanAccess ==
    [][(StreamStepped /\ IpClass(StreamEvent.source_id) = "public") =>
          /\ StreamReturned
          /\ wres'[StreamWorker].suspicious
          /\ wres'[StreamWorker].rule_hit = "NON_LAN_ACCESS"
          /\ suspicious_flag'
      ]_vars

\* C22 witness: a monitored command of an unregistered actor under an unknown
\* role from 11.22.33.44 was judged NON_LAN_ACCESS and the flag is set.
C22_Witness ==
    /\ Len(log[StreamDev]) = 1
    /\ dequeued[StreamDev][1].source_id = "11.22.33.44"
    /\ dequeued[StreamDev][1].event_name = "control_command"
    /\ dequeued[StreamDev][1].user_id = "unknown_user"
    /\ dequeued[StreamDev][1].user_role = "INVALID_ROLE"
    /\ log[StreamDev][1].verdict = Verdict(TRUE, "NON_LAN_ACCESS",
                                           [ip |-> "11.22.33.44"])
    /\ suspicious_flag

\* C23: an event whose origin address does not parse gets a suspicious verdict
\* with rule id BAD_IP_FORMAT, and the global flag is set.
C23_BadIpFormat ==
    [][(StreamStepped /\ IpClass(StreamEvent.source_id) = "invalid") =>
          /\ StreamReturned
          /\ wres'[StreamWorker].suspicious
          /\ wres'[StreamWorker].rule_hit = "BAD_IP_FORMAT"
          /\ suspicious_flag'
      ]_vars

\* The rule of the first validation check an event fails, in the order address
\* unparsable, address not private, device not registered, actor not
\* registered, role unknown, USER claimed by an actor registered otherwise;
\* None when it fails none.
FirstFailedCheck(e) ==
    CASE IpClass(e.source_id) = "invalid" -> "INVALID_IP_FORMAT"
      [] IpClass(e.source_id) = "public" -> "NON_LAN_ACCESS"
      [] IpClass(e.source_id) = "private"
           /\ e.source_id \notin DOMAIN known_devices -> "UNKNOWN_DEVICE"
      [] IpClass(e.source_id) = "private"
           /\ e.source_id \in DOMAIN known_devices
           /\ e.user_id \notin DOMAIN verified_users -> "UNKNOWN_USER"
      [] IpClass(e.source_id) = "private"
           /\ e.source_id \in DOMAIN known_devices
           /\ e.user_id \in DOMAIN verified_users
           /\ e.user_role \notin {"ADMIN", "MANAGER", "USER"} -> "INVALID_ROLE"
      [] IpClass(e.source_id) = "private"
           /\ e.source_id \in DOMAIN known_devices
           /\ e.user_id \in DOMAIN verified_users
           /\ e.user_role = "USER"
           /\ verified_users[e.user_id] # "USER" -> "PRIVILEGE_ESCALATION"
      [] OTHER -> None

ValidationRules ==
    {"INVALID_IP_FORMAT", "NON_LAN_ACCESS", "UNKNOWN_DEVICE", "UNKNOWN_USER",
     "INVALID_ROLE", "PRIVILEGE_ESCALATION"}

\* C24: the verdict of an event that fails a validation check is the one of
\* the first check it fails, in the fixed order; an event that fails none gets
\* no validation verdict.
C24_FirstFailingCheck ==
    [][StreamStepped =>
          /\ StreamReturned
          /\ FirstFailedCheck(StreamEvent) # None =>
                wres'[StreamWorker].rule_hit = FirstFailedCheck(StreamEvent)
          /\ FirstFailedCheck(StreamEvent) = None =>
                wres'[StreamWorker].rule_hit \notin ValidationRules
      ]_vars

\* C24 witness: the claim's two examples, one after the other: an unregistered
\* actor from the public address (no registered device) is NON_LAN_ACCESS, and
\* an unregistered actor on an unregistered private device is UNKNOWN_DEVICE.
C24_Witness ==
    /\ Len(log[StreamDev]) = 2
    /\ dequeued[StreamDev][1].source_id = "11.22.33.44"
    /\ dequeued[StreamDev][1].user_id = "unknown_user"
    /\ log[StreamDev][1].verdict.rule_hit = "NON_LAN_ACCESS"
    /\ dequeued[StreamDev][2].source_id = "192.168.99.99"
    /\ dequeued[StreamDev][2].user_id = "unknown_user"
    /\ dequeued[StreamDev][2].user_role = "INVALID_ROLE"
    /\ log[StreamDev][2].verdict.rule_hit = "UNKNOWN_DEVICE"

\* C25: an event from a private address of a registered device and a
\* registered actor whose role is not one of the three known roles gets a
\* non-suspicious verdict with rule id ROLE_UNKNOWN.
C25_RoleUnknown ==
    [][(/\ StreamStepped
        /\ IpClass(StreamEvent.source_id) = "private"
        /\ StreamEvent.source_id \in DOMAIN known_devices
        /\ StreamEvent.user_id \in DOMAIN verified_users
        /\ StreamEvent.user_role \notin {"ADMIN", "MANAGER", "USER"}) =>
          /\ StreamReturned
          /\ ~wres'[StreamWorker].suspicious
          /\ wres'[StreamWorker].rule_hit = "ROLE_UNKNOWN"
      ]_vars

\* C26: an event whose verdict comes from the network or the device, user and
\* role validation modifies no sliding window of the engine, and so is never
\* BRUTE_FORCE_LOGIN or COMMAND_INJECTION.
C26_ShortCircuitKeepsWindows ==
    [][(StreamStepped /\ FirstFailedCheck(StreamEvent) # None) =>
          /\ rules'[StreamWorker] = rules[StreamWorker]
          /\ wres'[StreamWorker].rule_hit
                \notin {"BRUTE_FORCE_LOGIN", "COMMAND_INJECTION"}
      ]_vars

\* C26 witness: after a failed login of eve that was counted, a failed login
\* sent under an unknown role got its validation verdict and the window still
\* holds the one login.
C26_Witness ==
    /\ Len(log[StreamDev]) = 2
    /\ log[StreamDev][1].verdict.rule_hit = None
    /\ dequeued[StreamDev][2].event_name = "login_attempt"
    /\ dequeued[StreamDev][2].user_id = "eve"
    /\ dequeued[StreamDev][2].user_role = "INVALID_ROLE"
    /\ log[StreamDev][2].verdict.rule_hit = "INVALID_ROLE"
    /\ rules[StreamWorker].failed_logins["eve"]
          = <<Stamp(dequeued[StreamDev][1].timestamp)>>

\* The rate a SYN report carries, a missing one counting as 0.
RateOf(e) == IF HasKey(e.context, "rate") THEN e.context["rate"][2] ELSE 0

\* Whether the report's multi_user flag is there and true.
MultiUser(e) == HasKey(e.context, "multi_user") /\ e.context["multi_user"]

YieldsSynFlood ==
    /\ StreamReturned
    /\ wres'[StreamWorker].suspicious
    /\ wres'[StreamWorker].rule_hit = "SYN_FLOOD"

\* C27: a packet_syn event that passes validation yields suspicious SYN_FLOOD
\* and sets the flag if and only if its rate is strictly greater than 100, a
\* missing rate counting as 0; the verdict's user is "multiple" when
\* multi_user is true and the reporting actor otherwise.
C27_SynFlood ==
    [][(/\ StreamStepped
        /\ StreamEvent.event_name = "packet_syn"
        /\ FirstFailedCheck(StreamEvent) = None) =>
          /\ StreamReturned
          /\ YieldsSynFlood <=> RateOf(StreamEvent) > 100
          /\ YieldsSynFlood =>
                /\ suspicious_flag'
                /\ wres'[StreamWorker].detail.user =
                      IF MultiUser(StreamEvent) THEN "multiple"
                      ELSE StreamEvent.user_id
          /\ ~YieldsSynFlood =>
                /\ wres'[StreamWorker].rule_hit = None
                /\ suspicious_flag' = suspicious_flag
      ]_vars

\* C27 witness: a report of rate 101 with multi_user true gave SYN_FLOOD for
\* "multiple", and a report without rate after it gave nothing.
C27_Witness ==
    /\ Len(log[StreamDev]) = 2
    /\ dequeued[StreamDev][1].context =
          [k \in {"rate", "multi_user"} |-> IF k = "rate" THEN Num(101) ELSE TRUE]
    /\ log[StreamDev][1].verdict.rule_hit = "SYN_FLOOD"
    /\ log[StreamDev][1].verdict.suspicious
    /\ log[StreamDev][1].verdict.detail.user = "multiple"
    /\ ~HasKey(dequeued[StreamDev][2].context, "rate")
    /\ log[StreamDev][2].verdict.rule_hit = None
    /\ suspicious_flag

\* The registry as the configuration calls of the deployment made it.
Configured ==
    [users |-> [u \in Users |-> IF u = "admin" THEN "ADMIN" ELSE "USER"],
     devices |-> [d \in Devices |-> "sensor"],
     commands |-> {"shutdown"}]

\* C28: evaluate never changes the registry: across every evaluation, and so
\* after any sequence of them, the actor table, the device table and the
\* monitored-command set are what the configuration calls made them; a lookup
\* of an unknown actor or device adds no entry.
C28_RegistryUntouched ==
    /\ [][StreamStepped => Registry' = Registry]_vars
    /\ [](Registry = Configured)

\* C28 witness: two events of an unregistered actor, one from an unregistered
\* device, were evaluated, and neither is in the tables.
C28_Witness ==
    /\ Len(log[StreamDev]) = 2
    /\ dequeued[StreamDev][1].user_id = "unknown_user"
    /\ dequeued[StreamDev][1].source_id = DevA
    /\ log[StreamDev][1].verdict.rule_hit = "UNKNOWN_USER"
    /\ dequeued[StreamDev][2].source_id = "192.168.99.99"
    /\ log[StreamDev][2].verdict.rule_hit = "UNKNOWN_DEVICE"
    /\ "unknown_user" \notin DOMAIN verified_users
    /\ "192.168.99.99" \notin DOMAIN known_devices

\* The events enqueued for device d and not yet dequeued: those waiting in any
\* Queue object that was made for d.
Pending(d) ==
    IF d \in Devices
    THEN Len(qitems[<<d, "t1">>]) + Len(qitems[<<d, "t2">>])
    ELSE 0

\* C29: get_queue_size(d) returns the number of events enqueued for d and not
\* yet dequeued, 0 for an address that never submitted, and
\* get_queue_size(None) returns the sum of these numbers over all devices.
C29_QueueSize ==
    /\ \A d \in Devices \cup {"192.168.99.99"} : GetQueueSize(d) = Pending(d)
    /\ GetQueueSize(None) = Pending(DevA) + Pending(DevB)

\* C30: the stop signal is read only between events: whatever shutdown does
\* meanwhile, a worker that has dequeued an event goes from the evaluation to
\* the log write and from there back to the loop with the event's verdict
\* handed to the log writer.
C30_DequeuedEventIsLogged ==
    [][\A w \in WIds :
          /\ (wpc[w] = "eval" /\ wpc'[w] # "eval") => wpc'[w] = "log"
          /\ (wpc[w] = "log" /\ wpc'[w] # "log") =>
                /\ wpc'[w] = "loop"
                /\ log'[DevOf(w)] =
                      Append(log[DevOf(w)],
                             [id |-> wevent[w].id, verdict |-> wres[w]])
      ]_vars

\* The event of this step lacks the context field its rule reads, or carries
\* one that is not a number.
MalformedField(e) ==
    \E f \in ContextFields :
        /\ e.event_name = f[1]
        /\ ~HasKey(e.context, f[2]) \/ ~IsNum(e.context[f[2]])

\* C31: evaluate is total: whatever the event's context holds, evaluate
\* returns a verdict instead of raising, and an absent or malformed field
\* gives a non-suspicious verdict.
C31_EvaluateTotal ==
    [][StreamStepped =>
          /\ StreamReturned
          /\ MalformedField(StreamEvent) => ~wres'[StreamWorker].suspicious
      ]_vars

\* No entry of the window is more than max_age older than t.
Evicted(window, t, max_age) ==
    \A i \in 1..Len(window) : t - ItemTime(window[i]) <= max_age

\* The windows the event touches (it passes validation and meets the guard of
\* the rule that keeps the window) hold no entry older than the event's
\* timestamp less the window's maximum age.
WindowsEvicted(e, r) ==
    FirstFailedCheck(e) = None =>
       /\ e.event_name = "login_attempt" /\ LoginFailed(e) =>
             Evicted(r.failed_logins[e.user_id], e.timestamp,
                     FAILED_LOGIN_WINDOW)
       /\ e.event_name = "control_command"
            /\ CommandMonitored(e, exploitable_commands) =>
             Evicted(r.command_bursts[e.user_id], e.timestamp,
                     COMMAND_SPAM_WINDOW)
       /\ e.event_name = "power_consumption" /\ PercentNumeric(e)
            /\ InRange(e.context["percent"][2]) =>
             Evicted(r.power_readings[e.source_id], e.timestamp,
                     POWER_ANALYSIS_WINDOW)
       /\ e.event_name = "system_resource_usage" /\ HasKey(e.context, "usage")
            /\ IsNum(e.context["usage"]) =>
             Evicted(r.resource_usage[e.source_id], e.timestamp,
                     RESOURCE_WINDOW)
       /\ e.event_name = "10000_messages_received" =>
             Evicted(r.mqtt_events, e.timestamp, MQTT_FLOOD_WINDOW)

\* C32: after evaluate has processed an event with timestamp t that touches a
\* sliding window of maximum age W, the window holds no entry older than
\* t - W, in whatever order the events arrive.
C32_WindowEvicted ==
    [][StreamStepped => WindowsEvicted(StreamEvent, rules'[StreamWorker])]_vars

\* The failed logins of the stream's latest actor that passed validation and
\* whose timestamps lie in [t - 60 s, t], t being the latest event's.
ReachingFailedLogins(stream) ==
    LET e == stream[Len(stream)] IN
    {i \in 1..Len(stream) :
        /\ stream[i].event_name = "login_attempt"
        /\ LoginFailed(stream[i])
        /\ FirstFailedCheck(stream[i]) = None
        /\ stream[i].user_id = e.user_id
        /\ e.timestamp - stream[i].timestamp >= 0
        /\ e.timestamp - stream[i].timestamp <= FAILED_LOGIN_WINDOW}

InHand(q) ==
    {w \in WIds : wqueue[w] = q /\ wpc[w] \in {"eval", "log", "except"}}

\* C34: task accounting stays balanced: the unfinished-task count of every
\* device queue is never negative and equals the events still queued plus the
\* events dequeued and not yet handled, so that it is 0 (and queue.join()
\* returns) once every enqueued event has been dequeued and handled, whether
\* its evaluation returned or raised.
C34_TaskAccounting ==
    \A q \in QIds :
        /\ unfinished[q] >= 0
        /\ unfinished[q] = Len(qitems[q]) + Cardinality(InHand(q))

\* C35: the privilege check covers only the claimed role USER: an event of an
\* actor registered as USER or MANAGER that claims the role ADMIN passes
\* validation (no PRIVILEGE_ESCALATION) and does not yield COMMAND_INJECTION,
\* however many monitored commands the actor has sent within 30 seconds.
C35_ClaimedAdminUnchecked ==
    [][StreamStepped /\ StreamEvent.user_role = "ADMIN"
         /\ verified_users[StreamEvent.user_id] \in {"USER", "MANAGER"} =>
          /\ StreamReturned
          /\ wres'[StreamWorker].rule_hit \notin ValidationRules
          /\ wres'[StreamWorker].rule_hit # "COMMAND_INJECTION"
      ]_vars

\* C35 witness: eve, registered as MANAGER, has sent four monitored commands
\* claiming ADMIN 10 seconds apart; all four are in the 30-second window and
\* every verdict was neutral.
C35_Witness ==
    /\ verified_users["eve"] = "MANAGER"
    /\ Len(log[StreamDev]) = 4
    /\ \A i \in 1..4 :
          /\ dequeued[StreamDev][i].user_role = "ADMIN"
          /\ dequeued[StreamDev][i].timestamp = 10 * i
          /\ log[StreamDev][i].verdict.rule_hit = None
    /\ Len(rules[StreamWorker].command_bursts["eve"]) = 4

\* C36: singleton construction is race-free: concurrent AttackDetector() calls
\* get one and the same instance, none of them fails, and the state of that
\* instance is set up exactly once, so that no construction resets what an
\* earlier caller has configured.
C36_SingletonOnce ==
    /\ instance <= 1
    /\ ninit <= 1
    /\ \A t \in Threads : cpc[t] # "raised"

\* The evaluation of this step added the event to its actor's command window.
CommandCounted ==
    rules'[StreamWorker].command_bursts[StreamEvent.user_id]
        # rules[StreamWorker].command_bursts[StreamEvent.user_id]

\* C37: configuration updates reach running workers: an evaluation that starts
\* when update_user, update_device or update_command_list calls have returned
\* (and none is in progress) uses the tables as those calls left them: its
\* validation verdict is the one the current actor and device tables give,
\* and a command counts as monitored exactly when it is in the current set.
C37_UpdatesReachWorkers ==
    [][StreamStepped /\ upc = "idle" =>
          /\ StreamReturned
          /\ FirstFailedCheck(StreamEvent) # None =>
                wres'[StreamWorker].rule_hit = FirstFailedCheck(StreamEvent)
          /\ FirstFailedCheck(StreamEvent) = None =>
                /\ wres'[StreamWorker].rule_hit \notin ValidationRules
                /\ StreamEvent.event_name = "control_command" =>
                      (CommandCounted <=>
                          StreamEvent.context["command"][2]
                              \in exploitable_commands)
      ]_vars

\* C37 witness: the engine found a login from 192.168.99.99 to come from an
\* unknown device, update_device then registered that address, and the next
\* login from it passed validation.
C37_Witness ==
    /\ nupdates = 1
    /\ "192.168.99.99" \in DOMAIN known_devices
    /\ Len(log[StreamDev]) = 2
    /\ \A i \in 1..2 : dequeued[StreamDev][i].source_id = "192.168.99.99"
    /\ log[StreamDev][1].verdict.rule_hit = "UNKNOWN_DEVICE"
    /\ log[StreamDev][2].verdict.rule_hit = None

\* C38: update_command_list replaces the monitored set and its callers take
\* turns: when a call completes the set is exactly its argument, and between
\* calls the set stays as the call that completed last left it (so after two
\* calls it is one of the two arguments, never a mixture); no call changes
\* the actor or the device table.
C38_ReplaceSerialised ==
    [][/\ upc = "cleared" /\ upc' = "idle" =>
             /\ exploitable_commands' = uarg
             /\ verified_users' = verified_users
             /\ known_devices' = known_devices
       /\ upc = "idle" /\ upc' = "cleared" =>
             /\ verified_users' = verified_users
             /\ known_devices' = known_devices
       /\ upc = "idle" /\ upc' = "idle" =>
             exploitable_commands' = exploitable_commands
      ]_vars

\* C38 witness: two calls have completed; the second found the set
\* {shutdown, reboot} left by the first and replaced it by {shutdown}.
C38_Witness ==
    /\ nupdates = 2
    /\ upc = "idle"
    /\ uold = {"shutdown", "reboot"}
    /\ uarg = {"shutdown"}
    /\ exploitable_commands = {"shutdown"}

\* The addresses the thread map and the queue map have a key for.
WorkerAddrs == {d \in Origins : SeqHas(thread_keys, d)}
QueueAddrs == {d \in Origins : SeqHas(queue_keys, d)}

\* The addresses events have been accepted from: every accepted event is in a
\* queue made for its address or has been dequeued by a worker of it.
SubmittedAddrs ==
    {d \in Origins :
        \/ dequeued[d] # <<>>
        \/ \E q \in QIds : DevOf(q) = d /\ qitems[q] # <<>>}

\* No handle_event call is in progress.
NoCallInProgress == \A t \in Threads : hpc[t] = "idle"

\* C39: every origin address passed to handle_event, private or not, parsable
\* or not, gets a queue and a started worker, and none is ever removed: when
\* a call returns the maps hold a queue and a started worker for its event's
\* address, the key sets of the maps only grow, and whenever no call is in
\* progress they both equal the set of addresses submitted so far.
C39_WorkerPerOrigin ==
    [][/\ \A t \in Threads :
             hpc[t] = "put" /\ hpc'[t] = "idle" =>
                LET d == hev[t].source_id IN
                /\ d \in WorkerAddrs' /\ d \in QueueAddrs'
                /\ device_queues'[d] \in qmade'
                /\ device_threads'[d] \in WIds
                /\ wpc'[device_threads'[d]] # "none"
       /\ WorkerAddrs \subseteq WorkerAddrs'
       /\ QueueAddrs \subseteq QueueAddrs'
       /\ NoCallInProgress' =>
             /\ WorkerAddrs' = SubmittedAddrs'
             /\ QueueAddrs' = SubmittedAddrs'
      ]_vars

\* C39 witness: events from a public address and from a string that is no
\* address have been accepted and no call is in progress; both addresses
\* have a queue and a worker, and the workers have run.
C39_Witness ==
    /\ NoCallInProgress
    /\ WorkerAddrs = {"11.22.33.44", "invalid-ip"}
    /\ QueueAddrs = WorkerAddrs
    /\ \A d \in WorkerAddrs : Len(log[d]) = 1

\* C40: get_queue_size(None) and shutdown, which iterate over the queue map
\* and the worker map, complete without an error while handle_event calls
\* insert a new device into those maps.
C40_IterationCompletes == gpc # "raised" /\ spc # "raised"

=============================================================================
